---------------------------- MODULE Spec2Model ----------------------------
(***************************************************************************)
(* Model of the semantic-analysis IR of Analyzer/Analyzer.cpp: SQL type    *)
(* promotion (BinOper::analyze_type_info, common_numeric_type), the        *)
(* expression node family kept as an object graph (heap of nodes addressed *)
(* by shared_ptr), and the operations over it (deep_copy, operator==,      *)
(* add_cast, group_predicates, rewrite_with_targetlist).                   *)
(***************************************************************************)
EXTENDS Integers, Sequences, FiniteSets, TLC

VARIABLES
  phase,       \* which driver is running and how far it got
  lhs_type,    \* the left operand's type (left_type, type1)
  rhs_type,    \* the right operand's type (right_type, type2)
  tres,        \* outcome of the last type-level call
  heap,        \* the Expr objects, heap[p] is the object shared_ptr p points to
  strs,        \* the std::string objects owned through Datum::stringval
  root,        \* the expression the driver holds
  ret          \* outcome of the last expression-level call

vars == <<phase, lhs_type, rhs_type, tres, heap, strs, root, ret>>

(***************************************************************************)
(* Bounds of the model.                                                    *)
(***************************************************************************)
MinDim == 10       \* smallest DECIMAL/NUMERIC precision drawn
MaxDim == 12       \* largest DECIMAL/NUMERIC precision drawn
MaxScale == 2      \* largest DECIMAL/NUMERIC scale drawn
MaxTimeDim == 1    \* largest TIME/TIMESTAMP precision drawn

(***************************************************************************)
(* SQLTypeInfo (Shared/sqltypes.h).  The record carries the fields that    *)
(* operator== compares; size is a function of the others and is left out.  *)
(***************************************************************************)
SQLTypeInfo2(t, n) ==
  [type |-> t, dimension |-> 0, scale |-> 0, notnull |-> n,
   compression |-> "kENCODING_NONE", comp_param |-> 0]

SQLTypeInfo4(t, d, s, n) ==
  [type |-> t, dimension |-> d, scale |-> s, notnull |-> n,
   compression |-> "kENCODING_NONE", comp_param |-> 0]

SQLTypeInfo7(t, d, s, n, c, p) ==
  [type |-> t, dimension |-> d, scale |-> s, notnull |-> n,
   compression |-> c, comp_param |-> p]

set_notnull(ti, n) == [ti EXCEPT !.notnull = n]

is_integer(ti) == ti.type \in {"kSMALLINT", "kINT", "kBIGINT"}

is_number(ti) ==
  ti.type \in {"kSMALLINT", "kINT", "kBIGINT", "kFLOAT", "kDOUBLE", "kNUMERIC", "kDECIMAL"}

is_string(ti) == ti.type \in {"kCHAR", "kVARCHAR", "kTEXT"}

is_time(ti) == ti.type \in {"kTIME", "kTIMESTAMP", "kDATE"}

IS_LOGIC(op) == op \in {"kAND", "kOR"}

IS_COMPARISON(op) == op \in {"kEQ", "kNE", "kLT", "kGT", "kLE", "kGE"}

IS_ARITHMETIC(op) == op \in {"kMINUS", "kPLUS", "kMULTIPLY", "kDIVIDE", "kMODULO"}

Max(a, b) == IF a >= b THEN a ELSE b

Min(a, b) == IF a <= b THEN a ELSE b

(***************************************************************************)
(* Outcomes of a call: a value, a thrown std::runtime_error (named by the   *)
(* error kind it stands for), or a failed CHECK (the process aborts).       *)
(***************************************************************************)
TypeOk(ti) == [status |-> "ok", ti |-> ti]

CheckFailed == [status |-> "abort"]

Throw(kind) == [status |-> "throw", error |-> kind]

(***************************************************************************)
(* BinOper::common_numeric_type                                            *)
(***************************************************************************)
DecimalKinds == {"kNUMERIC", "kDECIMAL"}

\* case kNUMERIC/kDECIMAL x kINT, lines 383-388: the max is taken with
\* type2.get_dimension(), the dimension of the INT operand.
common_numeric_type_DecimalInt(type1, type2) ==
  SQLTypeInfo4("kNUMERIC",
               Max(Min(19, 10 + type1.scale), type2.dimension),
               type1.scale, FALSE)

common_numeric_type_mixed(type1, type2) ==
  LET t1 == type1.type
      t2 == type2.type
  IN CASE t1 = "kSMALLINT" ->
            (CASE t2 = "kINT" -> TypeOk(SQLTypeInfo2("kINT", FALSE))
               [] t2 = "kBIGINT" -> TypeOk(SQLTypeInfo2("kBIGINT", FALSE))
               [] t2 = "kFLOAT" -> TypeOk(SQLTypeInfo2("kFLOAT", FALSE))
               [] t2 = "kDOUBLE" -> TypeOk(SQLTypeInfo2("kDOUBLE", FALSE))
               [] t2 \in DecimalKinds ->
                    TypeOk(SQLTypeInfo4("kNUMERIC",
                                        Max(5 + type2.scale, type2.dimension),
                                        type2.scale, FALSE))
               [] OTHER -> CheckFailed)
       [] t1 = "kINT" ->
            (CASE t2 = "kSMALLINT" -> TypeOk(SQLTypeInfo2("kINT", FALSE))
               [] t2 = "kBIGINT" -> TypeOk(SQLTypeInfo2("kBIGINT", FALSE))
               [] t2 = "kFLOAT" -> TypeOk(SQLTypeInfo2("kFLOAT", FALSE))
               [] t2 = "kDOUBLE" -> TypeOk(SQLTypeInfo2("kDOUBLE", FALSE))
               [] t2 \in DecimalKinds ->
                    TypeOk(SQLTypeInfo4("kNUMERIC",
                                        Max(Min(19, 10 + type2.scale), type2.dimension),
                                        type2.scale, FALSE))
               [] OTHER -> CheckFailed)
       [] t1 = "kBIGINT" ->
            (CASE t2 = "kSMALLINT" -> TypeOk(SQLTypeInfo2("kBIGINT", FALSE))
               [] t2 = "kINT" -> TypeOk(SQLTypeInfo2("kBIGINT", FALSE))
               [] t2 = "kFLOAT" -> TypeOk(SQLTypeInfo2("kFLOAT", FALSE))
               [] t2 = "kDOUBLE" -> TypeOk(SQLTypeInfo2("kDOUBLE", FALSE))
               [] t2 \in DecimalKinds ->
                    TypeOk(SQLTypeInfo4("kNUMERIC", 19, type2.scale, FALSE))
               [] OTHER -> CheckFailed)
       [] t1 = "kFLOAT" ->
            (CASE t2 \in {"kSMALLINT", "kINT", "kBIGINT"} -> TypeOk(SQLTypeInfo2("kFLOAT", FALSE))
               [] t2 = "kDOUBLE" -> TypeOk(SQLTypeInfo2("kDOUBLE", FALSE))
               [] t2 \in DecimalKinds -> TypeOk(SQLTypeInfo2("kFLOAT", FALSE))
               [] OTHER -> CheckFailed)
       [] t1 = "kDOUBLE" ->
            (CASE t2 \in {"kSMALLINT", "kINT", "kBIGINT", "kFLOAT", "kNUMERIC", "kDECIMAL"} ->
                    TypeOk(SQLTypeInfo2("kDOUBLE", FALSE))
               [] OTHER -> CheckFailed)
       [] t1 \in DecimalKinds ->
            (CASE t2 = "kSMALLINT" ->
                    TypeOk(SQLTypeInfo4("kNUMERIC",
                                        Max(5 + type1.scale, type1.dimension),
                                        type1.scale, FALSE))
               [] t2 = "kINT" -> TypeOk(common_numeric_type_DecimalInt(type1, type2))
               [] t2 = "kBIGINT" ->
                    TypeOk(SQLTypeInfo4("kNUMERIC", 19, type1.scale, FALSE))
               [] t2 = "kFLOAT" -> TypeOk(SQLTypeInfo2("kFLOAT", FALSE))
               [] t2 = "kDOUBLE" -> TypeOk(SQLTypeInfo2("kDOUBLE", FALSE))
               [] t2 \in DecimalKinds ->
                    LET common_scale == Max(type1.scale, type2.scale)
                    IN TypeOk(SQLTypeInfo4("kNUMERIC",
                                           Max(type1.dimension - type1.scale,
                                               type2.dimension - type2.scale) + common_scale,
                                           common_scale, FALSE))
               [] OTHER -> CheckFailed)
       [] OTHER -> CheckFailed

common_numeric_type(type1, type2) ==
  IF ~(is_number(type1) /\ is_number(type2)) THEN CheckFailed
  ELSE IF type1.type = type2.type
       THEN TypeOk(SQLTypeInfo4(type1.type,
                                Max(type1.dimension, type2.dimension),
                                Max(type1.scale, type2.scale), FALSE))
       ELSE common_numeric_type_mixed(type1, type2)

(***************************************************************************)
(* BinOper::analyze_type_info                                              *)
(***************************************************************************)
Analyzed(result_type, new_left_type, new_right_type) ==
  [status |-> "ok", result_type |-> result_type,
   new_left_type |-> new_left_type, new_right_type |-> new_right_type]

\* the operand types chosen for two temporal operands, lines 132-196;
\* <<new_left_type, new_right_type>> or a throw
temporal_operand_types_leftdate(left_type, right_type) ==
  LET lt == left_type.type
      rt == right_type.type
      maxdim == Max(left_type.dimension, right_type.dimension)
  IN CASE lt = "kTIMESTAMP" /\ rt = "kTIME" -> Throw("IncomparableTemporals")
       [] lt = "kTIMESTAMP" /\ rt = "kDATE" ->
            [status |-> "ok", l |-> left_type, r |-> left_type]
       [] lt = "kTIMESTAMP" /\ rt = "kTIMESTAMP" ->
            [status |-> "ok",
             l |-> SQLTypeInfo4("kTIMESTAMP", maxdim, 0, left_type.notnull),
             r |-> SQLTypeInfo4("kTIMESTAMP", maxdim, 0, right_type.notnull)]
       [] lt = "kTIME" /\ rt = "kTIMESTAMP" -> Throw("IncomparableTemporals")
       [] lt = "kTIME" /\ rt = "kDATE" -> Throw("IncomparableTemporals")
       [] lt = "kTIME" /\ rt = "kTIME" ->
            [status |-> "ok",
             l |-> SQLTypeInfo4("kTIME", maxdim, 0, left_type.notnull),
             r |-> SQLTypeInfo4("kTIME", maxdim, 0, right_type.notnull)]
       [] lt = "kDATE" /\ rt = "kTIMESTAMP" ->
            [status |-> "ok", l |-> left_type, r |-> left_type]
       [] lt = "kDATE" /\ rt = "kDATE" ->
            [status |-> "ok", l |-> left_type, r |-> left_type]
       [] lt = "kDATE" /\ rt = "kTIME" -> Throw("IncomparableTemporals")
       [] OTHER -> CheckFailed

temporal_operand_types(left_type, right_type) ==
  LET lt == left_type.type
      rt == right_type.type
      maxdim == Max(left_type.dimension, right_type.dimension)
  IN CASE lt = "kTIMESTAMP" /\ rt = "kTIME" -> Throw("IncomparableTemporals")
       [] lt = "kTIMESTAMP" /\ rt = "kDATE" ->
            [status |-> "ok", l |-> left_type, r |-> left_type]
       [] lt = "kTIMESTAMP" /\ rt = "kTIMESTAMP" ->
            [status |-> "ok",
             l |-> SQLTypeInfo4("kTIMESTAMP", maxdim, 0, left_type.notnull),
             r |-> SQLTypeInfo4("kTIMESTAMP", maxdim, 0, right_type.notnull)]
       [] lt = "kTIME" /\ rt = "kTIMESTAMP" -> Throw("IncomparableTemporals")
       [] lt = "kTIME" /\ rt = "kDATE" -> Throw("IncomparableTemporals")
       [] lt = "kTIME" /\ rt = "kTIME" ->
            [status |-> "ok",
             l |-> SQLTypeInfo4("kTIME", maxdim, 0, left_type.notnull),
             r |-> SQLTypeInfo4("kTIME", maxdim, 0, right_type.notnull)]
       [] lt = "kDATE" /\ rt = "kTIMESTAMP" ->
            [status |-> "ok", l |-> right_type, r |-> right_type]
       [] lt = "kDATE" /\ rt = "kDATE" ->
            [status |-> "ok", l |-> left_type, r |-> left_type]
       [] lt = "kDATE" /\ rt = "kTIME" -> Throw("IncomparableTemporals")
       [] OTHER -> CheckFailed

\* the comparison branch, lines 124-212, before result_type.set_notnull
analyze_comparison(left_type, right_type) ==
  LET boolean == SQLTypeInfo2("kBOOLEAN", FALSE)
  IN IF left_type = right_type THEN Analyzed(boolean, left_type, right_type)
     ELSE IF is_number(left_type) /\ is_number(right_type)
     THEN LET common_type == common_numeric_type(left_type, right_type)
          IN IF common_type.status # "ok" THEN common_type
             ELSE Analyzed(boolean,
                           set_notnull(common_type.ti, left_type.notnull),
                           set_notnull(common_type.ti, right_type.notnull))
     ELSE IF is_time(left_type) /\ is_time(right_type)
     THEN LET t == temporal_operand_types(left_type, right_type)
          IN IF t.status # "ok" THEN t ELSE Analyzed(boolean, t.l, t.r)
     ELSE IF is_string(left_type) /\ is_time(right_type)
     THEN Analyzed(boolean, set_notnull(right_type, left_type.notnull), right_type)
     ELSE IF is_time(left_type) /\ is_string(right_type)
     THEN Analyzed(boolean, left_type, set_notnull(left_type, right_type.notnull))
     ELSE IF is_string(left_type) /\ is_string(right_type)
     THEN Analyzed(boolean, left_type, right_type)
     ELSE Throw("Incomparable")

analyze_arithmetic_nomodcheck(op, left_type, right_type) ==
  IF ~is_number(left_type) \/ ~is_number(right_type)
  THEN Throw("NonNumericArithmetic")
  ELSE LET common_type == common_numeric_type(left_type, right_type)
       IN IF common_type.status # "ok" THEN common_type
          ELSE Analyzed(common_type.ti,
                        set_notnull(common_type.ti, left_type.notnull),
                        set_notnull(common_type.ti, right_type.notnull))

\* the arithmetic branch, lines 213-223, before result_type.set_notnull
analyze_arithmetic(op, left_type, right_type) ==
  IF ~is_number(left_type) \/ ~is_number(right_type)
  THEN Throw("NonNumericArithmetic")
  ELSE IF op = "kMODULO" /\ (~is_integer(left_type) \/ ~is_integer(right_type))
  THEN Throw("NonIntegerModulo")
  ELSE LET common_type == common_numeric_type(left_type, right_type)
       IN IF common_type.status # "ok" THEN common_type
          ELSE Analyzed(common_type.ti,
                        set_notnull(common_type.ti, left_type.notnull),
                        set_notnull(common_type.ti, right_type.notnull))

analyze_type_info(op, left_type, right_type) ==
  LET r == IF IS_LOGIC(op)
           THEN IF left_type.type # "kBOOLEAN" \/ right_type.type # "kBOOLEAN"
                THEN Throw("NonBooleanInLogic")
                ELSE Analyzed(SQLTypeInfo2("kBOOLEAN", FALSE), left_type, right_type)
           ELSE IF IS_COMPARISON(op) THEN analyze_comparison(left_type, right_type)
           ELSE IF IS_ARITHMETIC(op) THEN analyze_arithmetic(op, left_type, right_type)
           ELSE Throw("InvalidBinaryOperator")
  IN IF r.status # "ok" THEN r
     ELSE [r EXCEPT !.result_type =
             set_notnull(r.result_type, left_type.notnull /\ right_type.notnull)]

(***************************************************************************)
(* Driver of the type-level calls: the analyzer holds two operand types    *)
(* and calls common_numeric_type or analyze_type_info on them.             *)
(***************************************************************************)
IntegerTypes == {SQLTypeInfo2(t, n) : t \in {"kSMALLINT", "kINT", "kBIGINT"}, n \in BOOLEAN}

FloatTypes == {SQLTypeInfo2(t, n) : t \in {"kFLOAT", "kDOUBLE"}, n \in BOOLEAN}

DecimalTypes ==
  {SQLTypeInfo4(t, d, s, n) :
     t \in DecimalKinds, d \in MinDim..MaxDim, s \in 0..MaxScale, n \in BOOLEAN}

NumericTypes == IntegerTypes \cup FloatTypes \cup DecimalTypes

TemporalTypes ==
  {SQLTypeInfo4(t, d, 0, n) : t \in {"kTIME", "kTIMESTAMP"}, d \in 0..MaxTimeDim, n \in BOOLEAN}
  \cup {SQLTypeInfo2("kDATE", n) : n \in BOOLEAN}

OtherTypes ==
  {SQLTypeInfo2("kBOOLEAN", n) : n \in BOOLEAN}
  \cup {SQLTypeInfo4("kVARCHAR", 10, 0, n) : n \in BOOLEAN}

OperandTypes == NumericTypes \cup TemporalTypes \cup OtherTypes

BinaryOps ==
  {"kEQ", "kNE", "kLT", "kGT", "kLE", "kGE", "kAND", "kOR",
   "kMINUS", "kPLUS", "kMULTIPLY", "kDIVIDE", "kMODULO"}

NoCall == [call |-> "none"]

NoHeap == <<>>

InitTypes ==
  /\ phase = "types"
  /\ lhs_type \in OperandTypes
  /\ rhs_type \in OperandTypes
  /\ tres = NoCall
  /\ heap = NoHeap
  /\ strs = NoHeap
  /\ root = 0
  /\ ret = NoCall

CallCommonNumericType ==
  /\ phase = "types"
  /\ is_number(lhs_type) /\ is_number(rhs_type)
  /\ tres' = [call |-> "common_numeric_type", out |-> common_numeric_type(lhs_type, rhs_type)]
  /\ UNCHANGED <<phase, lhs_type, rhs_type, heap, strs, root, ret>>

CallAnalyzeTypeInfo ==
  /\ phase = "types"
  /\ \E op \in BinaryOps :
       tres' = [call |-> "analyze_type_info", op |-> op,
                out |-> analyze_type_info(op, lhs_type, rhs_type)]
  /\ UNCHANGED <<phase, lhs_type, rhs_type, heap, strs, root, ret>>

NextTypes == CallCommonNumericType \/ CallAnalyzeTypeInfo

SpecTypes == InitTypes /\ [][NextTypes]_vars

(***************************************************************************)
(* Claims about the type-level calls, checked under SpecTypes.             *)
(***************************************************************************)

\* C1: promotion symmetry: for every pair of numeric types A and B,
\* common_numeric_type(A, B) returns the same type (kind, dimension, scale,
\* notnull) as common_numeric_type(B, A).
C1_PromotionSymmetry ==
  tres.call = "common_numeric_type" =>
    tres.out = common_numeric_type(rhs_type, lhs_type)

TemporalCompared ==
  /\ tres.call = "analyze_type_info"
  /\ IS_COMPARISON(tres.op)
  /\ is_time(lhs_type) /\ is_time(rhs_type)
  /\ lhs_type # rhs_type

MaxDimOf(kind, ti) ==
  ti.type = kind /\ ti.dimension = Max(lhs_type.dimension, rhs_type.dimension)

\* C9: a comparison of two temporal operand types that are not identical
\* follows the temporal matrix: TIMESTAMP x TIMESTAMP gives both operands
\* TIMESTAMP with the larger dimension, TIMESTAMP x DATE gives both the left
\* type, DATE x TIMESTAMP gives both the right type, DATE x DATE gives DATE,
\* TIME x TIME gives TIME with the larger dimension, every pair combining
\* TIME with TIMESTAMP or DATE fails with IncomparableTemporals, and every
\* non-failing case has result type BOOLEAN.
C9_TemporalMatrix ==
  TemporalCompared =>
    LET lt == lhs_type.type
        rt == rhs_type.type
        out == tres.out
    IN /\ (lt = "kTIME") # (rt = "kTIME") =>
             out = Throw("IncomparableTemporals")
       /\ (lt = "kTIME") = (rt = "kTIME") =>
             /\ out.status = "ok"
             /\ out.result_type.type = "kBOOLEAN"
       /\ lt = "kTIMESTAMP" /\ rt = "kTIMESTAMP" =>
             /\ MaxDimOf("kTIMESTAMP", out.new_left_type)
             /\ MaxDimOf("kTIMESTAMP", out.new_right_type)
       /\ lt = "kTIMESTAMP" /\ rt = "kDATE" =>
             out.new_left_type = lhs_type /\ out.new_right_type = lhs_type
       /\ lt = "kDATE" /\ rt = "kTIMESTAMP" =>
             out.new_left_type = rhs_type /\ out.new_right_type = rhs_type
       /\ lt = "kDATE" /\ rt = "kDATE" =>
             out.new_left_type.type = "kDATE" /\ out.new_right_type.type = "kDATE"
       /\ lt = "kTIME" /\ rt = "kTIME" =>
             /\ MaxDimOf("kTIME", out.new_left_type)
             /\ MaxDimOf("kTIME", out.new_right_type)

\* analyze_type(EQ, TIMESTAMP(0), DATE) has been computed
C9_Witness ==
  /\ TemporalCompared
  /\ tres.op = "kEQ"
  /\ lhs_type.type = "kTIMESTAMP" /\ lhs_type.dimension = 0
  /\ rhs_type.type = "kDATE"
  /\ tres.out.status = "ok"
  /\ tres.out.new_right_type.type = "kTIMESTAMP"

ArithmeticCalled == tres.call = "analyze_type_info" /\ IS_ARITHMETIC(tres.op)

ArithmeticLegal ==
  /\ is_number(lhs_type) /\ is_number(rhs_type)
  /\ tres.op = "kMODULO" => is_integer(lhs_type) /\ is_integer(rhs_type)

ArithmeticFailures ==
  /\ ~(is_number(lhs_type) /\ is_number(rhs_type)) =>
        tres.out = Throw("NonNumericArithmetic")
  /\ /\ is_number(lhs_type) /\ is_number(rhs_type)
     /\ tres.op = "kMODULO"
     /\ ~(is_integer(lhs_type) /\ is_integer(rhs_type))
     => tres.out = Throw("NonIntegerModulo")

IsDecimal_10_2(ti) == ti.type \in DecimalKinds /\ ti.dimension = 10 /\ ti.scale = 2

\* C10 as stated: an arithmetic operator on numeric operand types L and R
\* (both integer for MODULO) returns the type common_numeric_type(L, R) as
\* result and as the type of both operands; PLUS on SMALLINT and
\* DECIMAL(10,2) gives DECIMAL(10,2) for the result and both operands, PLUS
\* on FLOAT and DECIMAL(10,2) gives FLOAT; a non-numeric operand fails with
\* NonNumericArithmetic, a non-integer operand of MODULO with NonIntegerModulo.
C10_Original ==
  ArithmeticCalled =>
    /\ ArithmeticFailures
    /\ ArithmeticLegal =>
         LET common == common_numeric_type(lhs_type, rhs_type)
             out == tres.out
         IN /\ out.status = "ok"
            /\ out.result_type = common.ti
            /\ out.new_left_type = common.ti
            /\ out.new_right_type = common.ti
            /\ tres.op = "kPLUS" /\ lhs_type.type = "kSMALLINT" /\ IsDecimal_10_2(rhs_type) =>
                 /\ out.result_type.type = "kDECIMAL"
                 /\ out.result_type.dimension = 10 /\ out.result_type.scale = 2
            /\ tres.op = "kPLUS" /\ lhs_type.type = "kFLOAT" /\ IsDecimal_10_2(rhs_type) =>
                 out.result_type.type = "kFLOAT"

\* C10 as amended: the result is common_numeric_type(L, R) with notnull set
\* to L.notnull AND R.notnull, and each operand's new type is the common type
\* carrying that operand's own notnull; PLUS on SMALLINT and DECIMAL(10,2)
\* gives kind NUMERIC with dimension 10 and scale 2 for the result and both
\* operands, PLUS on FLOAT and DECIMAL(10,2) gives FLOAT; the two failures
\* are as stated.
C10_ArithmeticPromotion ==
  ArithmeticCalled =>
    /\ ArithmeticFailures
    /\ ArithmeticLegal =>
         LET common == common_numeric_type(lhs_type, rhs_type)
             out == tres.out
         IN /\ out.status = "ok"
            /\ out.result_type = set_notnull(common.ti, lhs_type.notnull /\ rhs_type.notnull)
            /\ out.new_left_type = set_notnull(common.ti, lhs_type.notnull)
            /\ out.new_right_type = set_notnull(common.ti, rhs_type.notnull)
            /\ tres.op = "kPLUS" /\ lhs_type.type = "kSMALLINT" /\ IsDecimal_10_2(rhs_type) =>
                 \A t \in {out.result_type, out.new_left_type, out.new_right_type} :
                    t.type = "kNUMERIC" /\ t.dimension = 10 /\ t.scale = 2
            /\ tres.op = "kPLUS" /\ lhs_type.type = "kFLOAT" /\ IsDecimal_10_2(rhs_type) =>
                 out.result_type.type = "kFLOAT"

\* analyze_type(PLUS, SMALLINT, DECIMAL(10,2)) has been computed
C10_Witness ==
  /\ ArithmeticCalled
  /\ tres.op = "kPLUS"
  /\ lhs_type.type = "kSMALLINT"
  /\ rhs_type.type = "kDECIMAL" /\ rhs_type.dimension = 10 /\ rhs_type.scale = 2
  /\ tres.out.status = "ok"
  /\ tres.out.result_type.dimension = 10

(***************************************************************************)
(* The expression object graph.  A store st = [h, s] holds the Expr        *)
(* objects (st.h[p] is the object shared_ptr p points to, 0 is nullptr)    *)
(* and the std::string objects owned through Datum::stringval (st.s[a]).   *)
(* Every node carries k (its dynamic type), ti (type_info) and agg         *)
(* (contains_agg) besides the fields of its variant.                       *)
(***************************************************************************)
nullptr == 0

Store(h, s) == [h |-> h, s |-> s]

\* makeExpr<T>(...): a fresh object, addressed by the next pointer value
New(st, node) == [st |-> Store(Append(st.h, node), st.s), p |-> Len(st.h) + 1, status |-> "ok"]

\* new std::string(v)
NewString(st, v) == [st |-> Store(st.h, Append(st.s, v)), a |-> Len(st.s) + 1]

Aborted(st) == [st |-> st, p |-> nullptr, status |-> "abort"]

Thrown(st, kind) == [st |-> st, p |-> nullptr, status |-> "throw", error |-> kind]

Returned(st, p) == [st |-> st, p |-> p, status |-> "ok"]

NULL_BOOLEAN == -128

NULL_SMALLINT == -32768

NULL_INT == -2147483647 - 1

\* INT64_MIN lies outside the checker's integer range; the value next to
\* INT32_MIN stands for it, so that the two sentinels stay distinct
NULL_BIGINT == -2147483647

\* float and double payloads are kept as exact decimal fractions n / 10^e
\* (binary rounding is not modelled); FLT_MIN and DBL_MIN are tiny positives
Float(n, e) == [n |-> n, e |-> e]

NULL_FLOAT == Float(1, 38)

NULL_DOUBLE == Float(1, 308)

\* Constant::set_null_value: the payload a null literal of type ti holds
\* (string kinds get a fresh empty std::string, see makeConstant)
null_value(ti) ==
  CASE ti.type = "kBOOLEAN" -> NULL_BOOLEAN
    [] ti.type = "kINT" -> NULL_INT
    [] ti.type = "kSMALLINT" -> NULL_SMALLINT
    [] ti.type \in {"kBIGINT", "kNUMERIC", "kDECIMAL"} -> NULL_BIGINT
    [] ti.type \in {"kTIME", "kTIMESTAMP", "kDATE"} -> NULL_BIGINT  \* sizeof(time_t) == 8
    [] ti.type = "kFLOAT" -> NULL_FLOAT
    [] ti.type = "kDOUBLE" -> NULL_DOUBLE
    [] OTHER -> 0

\* Constant(ti, is_null, constval): a null literal resets its payload
makeConstant(st, ti, is_null, constval) ==
  IF is_null /\ is_string(ti)
  THEN LET ns == NewString(st, <<>>)
       IN New(ns.st, [k |-> "Constant", ti |-> ti, agg |-> FALSE,
                      is_null |-> TRUE, constval |-> ns.a])
  ELSE New(st, [k |-> "Constant", ti |-> ti, agg |-> FALSE, is_null |-> is_null,
                constval |-> IF is_null THEN null_value(ti) ELSE constval])

(***************************************************************************)
(* operator== of every variant.  The outcome is "true", "false" or "abort"  *)
(* (a failed CHECK inside Datum_equal).                                     *)
(***************************************************************************)
Bool3(b) == IF b THEN "true" ELSE "false"

\* x && y with y evaluated only when x is true
And3(x, y) == IF x = "true" THEN y ELSE x

\* SQLTypeInfo::operator==
SQLTypeInfo_eq(a, b) == a = b

\* ColumnVar::operator== (Var does not override it)
ColumnVar_eq(a, b) ==
  IF b.k \notin {"ColumnVar", "Var"} THEN "false"
  ELSE IF a.rte_idx # -1
  THEN Bool3(a.table_id = b.table_id /\ a.column_id = b.column_id /\ a.rte_idx = b.rte_idx)
  ELSE IF a.k # "Var" THEN "false"
  ELSE IF b.k # "Var" THEN "false"
  ELSE Bool3(a.which_row = b.which_row /\ a.varno = b.varno)

Datum_equal(st, ti, val1, val2) ==
  CASE ti.type = "kBOOLEAN" -> Bool3(val1 = val2)
    [] ti.type \in {"kCHAR", "kVARCHAR", "kTEXT"} -> Bool3(st.s[val1] = st.s[val2])
    [] ti.type \in {"kNUMERIC", "kDECIMAL", "kBIGINT"} -> Bool3(val1 = val2)
    [] ti.type = "kINT" -> Bool3(val1 = val2)
    [] ti.type = "kSMALLINT" -> Bool3(val1 = val2)
    [] ti.type = "kFLOAT" -> Bool3(val1 = val2)
    [] ti.type = "kDOUBLE" -> Bool3(val1 = val2)
    [] ti.type \in {"kTIME", "kTIMESTAMP"} -> Bool3(val1 = val2)
    [] OTHER -> "abort"

Constant_eq(st, a, b) ==
  IF b.k # "Constant" THEN "false"
  ELSE IF ~SQLTypeInfo_eq(a.ti, b.ti) \/ a.is_null # b.is_null THEN "false"
  ELSE Datum_equal(st, a.ti, a.constval, b.constval)

RECURSIVE Eq(_, _, _)
RECURSIVE EqList(_, _, _)
RECURSIVE EqPairs(_, _, _)

\* the loop of InValues::operator== over two lists of the same length
EqList(st, ps, qs) ==
  IF ps = <<>> THEN "true"
  ELSE And3(Eq(st, Head(ps), Head(qs)), EqList(st, Tail(ps), Tail(qs)))

\* the loop of CaseExpr::operator== over two pair lists of the same length
EqPairs(st, ps, qs) ==
  IF ps = <<>> THEN "true"
  ELSE And3(And3(Eq(st, Head(ps)[1], Head(qs)[1]), Eq(st, Head(ps)[2], Head(qs)[2])),
            EqPairs(st, Tail(ps), Tail(qs)))

\* *p == *q, dispatched on the dynamic type of *p
Eq(st, p, q) ==
  LET a == st.h[p]
      b == st.h[q]
  IN CASE a.k \in {"ColumnVar", "Var"} -> ColumnVar_eq(a, b)
       [] a.k = "Constant" -> Constant_eq(st, a, b)
       [] a.k = "UOper" ->
            IF b.k # "UOper" THEN "false"
            ELSE And3(Bool3(a.optype = b.optype), Eq(st, a.operand, b.operand))
       [] a.k = "BinOper" ->
            IF b.k # "BinOper" THEN "false"
            ELSE And3(Bool3(a.optype = b.optype),
                      And3(Eq(st, a.left_operand, b.left_operand),
                           Eq(st, a.right_operand, b.right_operand)))
       [] a.k = "CharLengthExpr" ->
            IF b.k # "CharLengthExpr" THEN "false"
            ELSE And3(Eq(st, a.arg, b.arg),
                      Bool3(a.calc_encoded_length = b.calc_encoded_length))
       [] a.k = "LikeExpr" ->
            IF b.k # "LikeExpr" THEN "false"
            ELSE And3(And3(Eq(st, a.arg, b.arg),
                           And3(Eq(st, a.like_expr, b.like_expr),
                                Bool3(a.is_ilike = b.is_ilike))),
                      IF a.escape_expr = b.escape_expr THEN "true"
                      ELSE IF a.escape_expr # nullptr /\ b.escape_expr # nullptr
                           THEN Eq(st, a.escape_expr, b.escape_expr)
                           ELSE "false")
       [] a.k = "InValues" ->
            IF b.k # "InValues" THEN "false"
            ELSE And3(Eq(st, a.arg, b.arg),
                      IF Len(a.value_list) # Len(b.value_list) THEN "false"
                      ELSE EqList(st, a.value_list, b.value_list))
       [] a.k = "AggExpr" ->
            IF b.k # "AggExpr" THEN "false"
            ELSE IF a.aggtype # b.aggtype \/ a.is_distinct # b.is_distinct THEN "false"
            ELSE IF a.arg = b.arg THEN "true"
            ELSE IF a.arg = nullptr \/ b.arg = nullptr THEN "false"
            ELSE Eq(st, a.arg, b.arg)
       [] a.k = "CaseExpr" ->
            IF b.k # "CaseExpr" THEN "false"
            ELSE IF Len(a.expr_pair_list) # Len(b.expr_pair_list) THEN "false"
            ELSE IF (a.else_expr = nullptr) # (b.else_expr = nullptr) THEN "false"
            ELSE And3(EqPairs(st, a.expr_pair_list, b.expr_pair_list),
                      IF a.else_expr = nullptr THEN "true"
                      ELSE Eq(st, a.else_expr, b.else_expr))
       [] a.k \in {"ExtractExpr", "DatetruncExpr"} ->
            IF b.k # a.k THEN "false"
            ELSE And3(Bool3(a.field = b.field), Eq(st, a.from_expr, b.from_expr))
       [] OTHER -> "abort"

(***************************************************************************)
(* Construction of a tree: the analyzer builds the children, then the node. *)
(* A description t is a node record whose child fields hold descriptions    *)
(* (Nil for an absent child) and whose string payload is the string itself. *)
(***************************************************************************)
Nil == [k |-> "nullptr"]

RECURSIVE Build(_, _)
RECURSIVE BuildList(_, _)
RECURSIVE BuildPairs(_, _)

\* child pointers of a list of descriptions, built left to right
BuildList(st, ts) ==
  IF ts = <<>> THEN [st |-> st, ps |-> <<>>]
  ELSE LET b == Build(st, Head(ts))
       IN IF b.status # "ok" THEN [st |-> b.st, ps |-> <<>>]
          ELSE LET rest == BuildList(b.st, Tail(ts))
               IN [st |-> rest.st, ps |-> <<b.p>> \o rest.ps]

BuildPairs(st, ts) ==
  IF ts = <<>> THEN [st |-> st, ps |-> <<>>]
  ELSE LET w == Build(st, Head(ts)[1])
       IN IF w.status # "ok" THEN [st |-> w.st, ps |-> <<>>]
          ELSE LET t == Build(w.st, Head(ts)[2])
               IN IF t.status # "ok" THEN [st |-> t.st, ps |-> <<>>]
                  ELSE LET rest == BuildPairs(t.st, Tail(ts))
                       IN [st |-> rest.st, ps |-> << <<w.p, t.p>> >> \o rest.ps]

Build(st, t) ==
  CASE t.k = "nullptr" -> Returned(st, nullptr)
    [] t.k \in {"ColumnVar", "Var", "Subquery"} -> New(st, t)
    [] t.k = "Constant" ->
         IF is_string(t.ti) /\ ~t.is_null
         THEN LET ns == NewString(st, t.constval)
              IN makeConstant(ns.st, t.ti, FALSE, ns.a)
         ELSE makeConstant(st, t.ti, t.is_null, t.constval)
    [] t.k = "UOper" ->
         LET c == Build(st, t.operand)
         IN IF c.status # "ok" THEN c ELSE New(c.st, [t EXCEPT !.operand = c.p])
    [] t.k = "BinOper" ->
         LET l == Build(st, t.left_operand)
         IN IF l.status # "ok" THEN l
            ELSE LET r == Build(l.st, t.right_operand)
                 IN IF r.status # "ok" THEN r
                    ELSE New(r.st, [t EXCEPT !.left_operand = l.p, !.right_operand = r.p])
    [] t.k = "CharLengthExpr" ->
         LET c == Build(st, t.arg)
         IN IF c.status # "ok" THEN c ELSE New(c.st, [t EXCEPT !.arg = c.p])
    [] t.k = "LikeExpr" ->
         LET a == Build(st, t.arg)
         IN IF a.status # "ok" THEN a
            ELSE LET l == Build(a.st, t.like_expr)
                 IN IF l.status # "ok" THEN l
                    ELSE LET e == Build(l.st, t.escape_expr)
                         IN IF e.status # "ok" THEN e
                            ELSE New(e.st, [t EXCEPT !.arg = a.p, !.like_expr = l.p,
                                                     !.escape_expr = e.p])
    [] t.k = "InValues" ->
         LET a == Build(st, t.arg)
         IN IF a.status # "ok" THEN a
            ELSE LET vs == BuildList(a.st, t.value_list)
                 IN IF Len(vs.ps) # Len(t.value_list) THEN Aborted(vs.st)
                    ELSE New(vs.st, [t EXCEPT !.arg = a.p, !.value_list = vs.ps])
    [] t.k = "AggExpr" ->
         LET c == Build(st, t.arg)
         IN IF c.status # "ok" THEN c ELSE New(c.st, [t EXCEPT !.arg = c.p])
    [] t.k = "CaseExpr" ->
         LET ps == BuildPairs(st, t.expr_pair_list)
         IN IF Len(ps.ps) # Len(t.expr_pair_list) THEN Aborted(ps.st)
            ELSE LET e == Build(ps.st, t.else_expr)
                 IN IF e.status # "ok" THEN e
                    ELSE New(e.st, [t EXCEPT !.expr_pair_list = ps.ps, !.else_expr = e.p])
    [] t.k \in {"ExtractExpr", "DatetruncExpr"} ->
         LET c == Build(st, t.from_expr)
         IN IF c.status # "ok" THEN c ELSE New(c.st, [t EXCEPT !.from_expr = c.p])

\* descriptions, named after the constructors of Analyzer.h
ColumnVar(ti, table_id, column_id, rte_idx) ==
  [k |-> "ColumnVar", ti |-> ti, agg |-> FALSE,
   table_id |-> table_id, column_id |-> column_id, rte_idx |-> rte_idx]

Var(ti, table_id, column_id, rte_idx, which_row, varno) ==
  [k |-> "Var", ti |-> ti, agg |-> FALSE,
   table_id |-> table_id, column_id |-> column_id, rte_idx |-> rte_idx,
   which_row |-> which_row, varno |-> varno]

Constant(ti, is_null, constval) ==
  [k |-> "Constant", ti |-> ti, agg |-> FALSE, is_null |-> is_null, constval |-> constval]

UOper(ti, agg, optype, operand) ==
  [k |-> "UOper", ti |-> ti, agg |-> agg, optype |-> optype, operand |-> operand]

BinOper(ti, agg, optype, qualifier, left_operand, right_operand) ==
  [k |-> "BinOper", ti |-> ti, agg |-> agg, optype |-> optype, qualifier |-> qualifier,
   left_operand |-> left_operand, right_operand |-> right_operand]

Subquery(ti) == [k |-> "Subquery", ti |-> ti, agg |-> FALSE]

\* InValues(a, l) : Expr(kBOOLEAN, a->get_type_info().get_notnull())
InValues(arg, value_list) ==
  [k |-> "InValues", ti |-> SQLTypeInfo2("kBOOLEAN", arg.ti.notnull), agg |-> FALSE,
   arg |-> arg, value_list |-> value_list]

\* CharLengthExpr(a, e) : Expr(kINT, a->get_type_info().get_notnull())
CharLengthExpr(arg, calc_encoded_length) ==
  [k |-> "CharLengthExpr", ti |-> SQLTypeInfo2("kINT", arg.ti.notnull), agg |-> FALSE,
   arg |-> arg, calc_encoded_length |-> calc_encoded_length]

\* LikeExpr(a, l, e, i, s) : Expr(kBOOLEAN, a->get_type_info().get_notnull())
LikeExpr(arg, like_expr, escape_expr, is_ilike, is_simple) ==
  [k |-> "LikeExpr", ti |-> SQLTypeInfo2("kBOOLEAN", arg.ti.notnull), agg |-> FALSE,
   arg |-> arg, like_expr |-> like_expr, escape_expr |-> escape_expr,
   is_ilike |-> is_ilike, is_simple |-> is_simple]

\* AggExpr(ti, a, g, d) : Expr(ti, true)
AggExpr(ti, aggtype, arg, is_distinct) ==
  [k |-> "AggExpr", ti |-> ti, agg |-> TRUE,
   aggtype |-> aggtype, arg |-> arg, is_distinct |-> is_distinct]

CaseExpr(ti, agg, expr_pair_list, else_expr) ==
  [k |-> "CaseExpr", ti |-> ti, agg |-> agg,
   expr_pair_list |-> expr_pair_list, else_expr |-> else_expr]

ExtractExpr(ti, agg, field, from_expr) ==
  [k |-> "ExtractExpr", ti |-> ti, agg |-> agg, field |-> field, from_expr |-> from_expr]

DatetruncExpr(ti, agg, field, from_expr) ==
  [k |-> "DatetruncExpr", ti |-> ti, agg |-> agg, field |-> field, from_expr |-> from_expr]

(***************************************************************************)
(* deep_copy of every variant                                              *)
(***************************************************************************)
\* Constant::deep_copy: a non-null string payload is duplicated
Constant_deep_copy(st, c) ==
  IF is_string(c.ti) /\ ~c.is_null
  THEN LET ns == NewString(st, st.s[c.constval])
       IN makeConstant(ns.st, c.ti, c.is_null, ns.a)
  ELSE makeConstant(st, c.ti, c.is_null, c.constval)

RECURSIVE deep_copy(_, _)
RECURSIVE deep_copy_list(_, _)
RECURSIVE deep_copy_pairs(_, _)

\* the loop of InValues::deep_copy
deep_copy_list(st, ps) ==
  IF ps = <<>> THEN [st |-> st, ps |-> <<>>, status |-> "ok"]
  ELSE LET c == deep_copy(st, Head(ps))
       IN IF c.status # "ok" THEN [st |-> c.st, ps |-> <<>>, status |-> c.status]
          ELSE LET rest == deep_copy_list(c.st, Tail(ps))
               IN [st |-> rest.st, ps |-> <<c.p>> \o rest.ps, status |-> rest.status]

\* the loop of CaseExpr::deep_copy
deep_copy_pairs(st, ps) ==
  IF ps = <<>> THEN [st |-> st, ps |-> <<>>, status |-> "ok"]
  ELSE LET w == deep_copy(st, Head(ps)[1])
       IN IF w.status # "ok" THEN [st |-> w.st, ps |-> <<>>, status |-> w.status]
          ELSE LET t == deep_copy(w.st, Head(ps)[2])
               IN IF t.status # "ok" THEN [st |-> t.st, ps |-> <<>>, status |-> t.status]
                  ELSE LET rest == deep_copy_pairs(t.st, Tail(ps))
                       IN [st |-> rest.st, ps |-> << <<w.p, t.p>> >> \o rest.ps,
                           status |-> rest.status]

\* p->deep_copy(); a null p stands for the "x ? x->deep_copy() : nullptr" of
\* the optional children
deep_copy(st, p) ==
  IF p = nullptr THEN Returned(st, nullptr)
  ELSE
  LET n == st.h[p]
  IN CASE n.k = "ColumnVar" ->
            New(st, ColumnVar(n.ti, n.table_id, n.column_id, n.rte_idx))
       [] n.k = "Var" ->
            New(st, Var(n.ti, n.table_id, n.column_id, n.rte_idx, n.which_row, n.varno))
       [] n.k = "Constant" -> Constant_deep_copy(st, n)
       [] n.k = "UOper" ->
            LET c == deep_copy(st, n.operand)
            IN IF c.status # "ok" THEN c
               ELSE New(c.st, UOper(n.ti, n.agg, n.optype, c.p))
       [] n.k = "BinOper" ->
            LET l == deep_copy(st, n.left_operand)
            IN IF l.status # "ok" THEN l
               ELSE LET r == deep_copy(l.st, n.right_operand)
                    IN IF r.status # "ok" THEN r
                       ELSE New(r.st, BinOper(n.ti, n.agg, n.optype, n.qualifier, l.p, r.p))
       [] n.k = "Subquery" -> Aborted(st)
       [] n.k = "InValues" ->
            LET vs == deep_copy_list(st, n.value_list)
            IN IF vs.status # "ok" THEN Aborted(vs.st)
               ELSE LET a == deep_copy(vs.st, n.arg)
                    IN IF a.status # "ok" THEN a
                       ELSE New(a.st, [InValues(st.h[n.arg], vs.ps) EXCEPT !.arg = a.p])
       [] n.k = "CharLengthExpr" ->
            LET c == deep_copy(st, n.arg)
            IN IF c.status # "ok" THEN c
               ELSE New(c.st, [CharLengthExpr(st.h[n.arg], n.calc_encoded_length)
                                 EXCEPT !.arg = c.p])
       [] n.k = "LikeExpr" ->
            LET a == deep_copy(st, n.arg)
            IN IF a.status # "ok" THEN a
               ELSE LET l == deep_copy(a.st, n.like_expr)
                    IN IF l.status # "ok" THEN l
                       ELSE LET e == deep_copy(l.st, n.escape_expr)
                            IN IF e.status # "ok" THEN e
                               ELSE New(e.st,
                                        [LikeExpr(st.h[n.arg], l.p, e.p, n.is_ilike, n.is_simple)
                                           EXCEPT !.arg = a.p])
       [] n.k = "AggExpr" ->
            LET c == deep_copy(st, n.arg)
            IN IF c.status # "ok" THEN c
               ELSE New(c.st, AggExpr(n.ti, n.aggtype, c.p, n.is_distinct))
       [] n.k = "CaseExpr" ->
            LET ps == deep_copy_pairs(st, n.expr_pair_list)
            IN IF ps.status # "ok" THEN Aborted(ps.st)
               ELSE LET e == deep_copy(ps.st, n.else_expr)
                    IN IF e.status # "ok" THEN e
                       ELSE New(e.st, CaseExpr(n.ti, n.agg, ps.ps, e.p))
       [] n.k = "ExtractExpr" ->
            LET c == deep_copy(st, n.from_expr)
            IN IF c.status # "ok" THEN c
               ELSE New(c.st, ExtractExpr(n.ti, n.agg, n.field, c.p))
       [] n.k = "DatetruncExpr" ->
            LET c == deep_copy(st, n.from_expr)
            IN IF c.status # "ok" THEN c
               ELSE New(c.st, DatetruncExpr(n.ti, n.agg, n.field, c.p))

(***************************************************************************)
(* The trees the drivers build.                                            *)
(***************************************************************************)
MaxListLen == 2    \* longest InValues value list / CASE pair list built

T_BOOLEAN == SQLTypeInfo2("kBOOLEAN", FALSE)

T_INT == SQLTypeInfo2("kINT", FALSE)

T_BIGINT == SQLTypeInfo2("kBIGINT", FALSE)

T_DATE == SQLTypeInfo2("kDATE", FALSE)

T_TIMESTAMP == SQLTypeInfo4("kTIMESTAMP", 0, 0, FALSE)

T_VARCHAR == SQLTypeInfo4("kVARCHAR", 10, 0, FALSE)

T_DECIMAL == SQLTypeInfo4("kDECIMAL", 10, 2, FALSE)

ColumnSamples ==
  {ColumnVar(T_INT, 1, 1, 0), ColumnVar(T_BOOLEAN, 2, 1, 1), ColumnVar(T_VARCHAR, 1, 2, 0)}

VarSamples ==
  {Var(T_INT, 1, 1, -1, "kINPUT_OUTER", 1), Var(T_INT, 1, 1, 0, "kOUTPUT", 2)}

ConstantSamples ==
  {Constant(T_INT, FALSE, 5), Constant(T_INT, TRUE, 0),
   Constant(T_BOOLEAN, FALSE, 1),
   Constant(T_DECIMAL, FALSE, 150),
   Constant(T_TIMESTAMP, FALSE, 1000),
   Constant(T_DATE, FALSE, 1000), Constant(T_DATE, TRUE, 0),
   Constant(T_VARCHAR, FALSE, <<"a", "b">>), Constant(T_VARCHAR, TRUE, <<>>)}

LeafSamples == ColumnSamples \cup VarSamples \cup ConstantSamples

\* the sequences over S of length 0..n
SeqsUpTo(S, n) == UNION {[1..m -> S] : m \in 0..n}

\* one node of every variant (but Subquery) over the given children
NodesOver(A, B) ==
  {UOper(T_BOOLEAN, FALSE, op, a) : op \in {"kNOT", "kISNULL"}, a \in A}
  \cup {UOper(T_BIGINT, FALSE, op, a) : op \in {"kUMINUS", "kCAST"}, a \in A}
  \cup {BinOper(T_BOOLEAN, FALSE, op, "kONE", a, b) : op \in {"kEQ", "kAND"}, a \in A, b \in B}
  \cup {BinOper(T_INT, FALSE, "kPLUS", "kONE", a, b) : a \in A, b \in B}
  \cup {InValues(a, vs) : a \in A, vs \in SeqsUpTo(B, MaxListLen - 1)}
  \cup {CharLengthExpr(a, e) : a \in A, e \in BOOLEAN}
  \cup {LikeExpr(a, b, e, i, TRUE) : a \in A, b \in B, e \in {Nil} \cup B, i \in BOOLEAN}
  \cup {AggExpr(T_BIGINT, g, a, d) : g \in {"kCOUNT", "kMIN"}, a \in {Nil} \cup A, d \in BOOLEAN}
  \cup {CaseExpr(T_INT, FALSE, ps, e) :
          ps \in SeqsUpTo(A \X B, MaxListLen - 1), e \in {Nil} \cup B}
  \cup {ExtractExpr(T_BIGINT, FALSE, "kYEAR", a) : a \in A}
  \cup {DatetruncExpr(T_TIMESTAMP, FALSE, "dtDAY", a) : a \in A}

EmptyStore == Store(<<>>, <<>>)

(***************************************************************************)
(* Driver of deep_copy: the planner holds a tree and copies it.            *)
(***************************************************************************)
CopyChildren == {ColumnVar(T_INT, 1, 1, 0), Constant(T_VARCHAR, FALSE, <<"a", "b">>)}

CopySamples ==
  LeafSamples \cup NodesOver(LeafSamples, CopyChildren)
  \cup NodesOver(NodesOver(CopyChildren, CopyChildren), CopyChildren)

InitCopy ==
  /\ phase = "built"
  /\ \E t \in CopySamples :
       LET b == Build(EmptyStore, t)
       IN heap = b.st.h /\ strs = b.st.s /\ root = [e |-> b.p]
  /\ ret = NoCall
  /\ lhs_type = T_INT /\ rhs_type = T_INT /\ tres = NoCall

DeepCopy ==
  /\ phase = "built"
  /\ LET c == deep_copy(Store(heap, strs), root.e)
     IN /\ heap' = c.st.h
        /\ strs' = c.st.s
        /\ ret' = [call |-> "deep_copy", status |-> c.status, p |-> c.p]
  /\ phase' = "called"
  /\ UNCHANGED <<root, lhs_type, rhs_type, tres>>

NextCopy == DeepCopy

SpecCopy == InitCopy /\ [][NextCopy]_vars

(***************************************************************************)
(* Walks over the object graph used to state the claims.                   *)
(***************************************************************************)
Range(f) == {f[i] : i \in DOMAIN f}

\* the non-null child pointers of a node
Children(n) ==
  (CASE n.k = "UOper" -> {n.operand}
     [] n.k = "BinOper" -> {n.left_operand, n.right_operand}
     [] n.k = "CharLengthExpr" -> {n.arg}
     [] n.k = "LikeExpr" -> {n.arg, n.like_expr, n.escape_expr}
     [] n.k = "InValues" -> {n.arg} \cup Range(n.value_list)
     [] n.k = "AggExpr" -> {n.arg}
     [] n.k = "CaseExpr" ->
          {n.else_expr} \cup UNION {{pr[1], pr[2]} : pr \in Range(n.expr_pair_list)}
     [] n.k \in {"ExtractExpr", "DatetruncExpr"} -> {n.from_expr}
     [] OTHER -> {}) \ {nullptr}

RECURSIVE Reach(_, _)
\* the objects of the subtree rooted at p
Reach(h, p) ==
  IF p = nullptr THEN {} ELSE {p} \cup UNION {Reach(h, c) : c \in Children(h[p])}

ContainsSubquery(h, p) == \E q \in Reach(h, p) : h[q].k = "Subquery"

\* the std::string objects the non-null string literals of a subtree point to
StringPayloads(h, p) ==
  {h[q].constval : q \in {x \in Reach(h, p) :
                            h[x].k = "Constant" /\ is_string(h[x].ti) /\ ~h[x].is_null}}

(***************************************************************************)
(* Claims about deep_copy, checked under SpecCopy.                         *)
(***************************************************************************)

\* C2: for every expression e without a Subquery (every variant, every
\* literal kind including DATE, string and null literals), e.deep_copy()
\* compares equal to e, and a non-null string Constant of the copy has its
\* own string payload.
C2_DeepCopyIdentity ==
  ret.call = "deep_copy" /\ ~ContainsSubquery(heap, root.e) =>
    /\ ret.status = "ok"
    /\ Eq(Store(heap, strs), ret.p, root.e) = "true"
    /\ StringPayloads(heap, ret.p) \cap StringPayloads(heap, root.e) = {}

(***************************************************************************)
(* Driver of operator==: the analyzer builds a tree twice, or builds a     *)
(* second tree that differs from the first in one field of one node, and   *)
(* compares the two.                                                       *)
(***************************************************************************)
\* the fields of a description that hold children
ChildFields(k) ==
  CASE k = "UOper" -> {"operand"}
    [] k = "BinOper" -> {"left_operand", "right_operand"}
    [] k = "CharLengthExpr" -> {"arg"}
    [] k = "LikeExpr" -> {"arg", "like_expr", "escape_expr"}
    [] k = "InValues" -> {"arg"}
    [] k = "AggExpr" -> {"arg"}
    [] k = "CaseExpr" -> {"else_expr"}
    [] k \in {"ExtractExpr", "DatetruncExpr"} -> {"from_expr"}
    [] OTHER -> {}

ListFields(k) ==
  CASE k = "InValues" -> {"value_list"}
    [] k = "CaseExpr" -> {"expr_pair_list"}
    [] OTHER -> {}

\* the fields of a node that one constructor argument sets: the variant's
\* own fields, and type_info where the constructor takes it
EssentialFields(t) ==
  DOMAIN t \ ({"k", "agg"} \cup ChildFields(t.k) \cup ListFields(t.k)
               \cup (IF t.k \in {"InValues", "CharLengthExpr", "LikeExpr"} THEN {"ti"} ELSE {})
               \cup (IF t.k = "Constant" /\ t.is_null THEN {"constval"} ELSE {}))

\* the other values a field may be given
OtherValues(t, f) ==
  (CASE f = "ti" -> {[t.ti EXCEPT !.notnull = ~@], [t.ti EXCEPT !.dimension = @ + 1]}
     [] f \in {"table_id", "column_id", "varno"} -> {1, 2}
     [] f = "rte_idx" -> IF t.k = "Var" THEN {-1, 0, 1} ELSE {0, 1}
     [] f = "which_row" -> {"kINPUT_OUTER", "kOUTPUT"}
     [] f \in {"is_null", "calc_encoded_length", "is_ilike", "is_simple", "is_distinct"} ->
          BOOLEAN
     [] f = "constval" ->
          IF is_string(t.ti) THEN {<<"a", "b">>, <<"a">>} ELSE {t.constval, t.constval + 1}
     [] f = "optype" ->
          IF t.k = "UOper" THEN {"kNOT", "kISNULL", "kUMINUS", "kCAST"}
          ELSE {"kEQ", "kNE", "kAND", "kPLUS"}
     [] f = "qualifier" -> {"kONE", "kANY", "kALL"}
     [] f = "aggtype" -> {"kCOUNT", "kMIN", "kMAX"}
     [] f = "field" ->
          IF t.k = "ExtractExpr" THEN {"kYEAR", "kMONTH"} ELSE {"dtDAY", "dtHOUR"})
  \ {t[f]}

RECURSIVE Changes(_)
\* the descriptions that differ from t in one essential field of one node
Changes(t) ==
  IF t.k = "nullptr" THEN {}
  ELSE
    UNION {{[t EXCEPT ![f] = v] : v \in OtherValues(t, f)} : f \in EssentialFields(t)}
    \cup UNION {{[t EXCEPT ![f] = c] : c \in Changes(t[f])} : f \in ChildFields(t.k)}
    \cup (IF t.k = "InValues"
          THEN UNION {{[t EXCEPT !.value_list[i] = c] : c \in Changes(t.value_list[i])} :
                        i \in DOMAIN t.value_list}
          ELSE {})
    \cup (IF t.k = "CaseExpr"
          THEN UNION {{[t EXCEPT !.expr_pair_list[ij[1]][ij[2]] = c] :
                          c \in Changes(t.expr_pair_list[ij[1]][ij[2]])} :
                        ij \in (DOMAIN t.expr_pair_list) \X {1, 2}}
          ELSE {})

EqLeaves ==
  ColumnSamples \cup VarSamples
  \cup {Constant(T_INT, FALSE, 5), Constant(T_INT, TRUE, 0),
        Constant(T_VARCHAR, FALSE, <<"a", "b">>), Constant(T_DECIMAL, FALSE, 150)}

EqChildren == {ColumnVar(T_INT, 1, 1, 0), Constant(T_VARCHAR, FALSE, <<"a", "b">>)}

EqSamples ==
  EqLeaves \cup NodesOver(EqLeaves, EqChildren)
  \cup NodesOver(NodesOver(EqChildren, EqChildren), EqChildren)

InitEq ==
  /\ phase = "built"
  /\ \E t \in EqSamples :
       LET b1 == Build(EmptyStore, t)
           b2 == Build(b1.st, t)
       IN /\ b1.status = "ok" /\ b2.status = "ok"
          /\ heap = b2.st.h /\ strs = b2.st.s
          /\ root = [e |-> b1.p, twin |-> b2.p, desc |-> t]
  /\ ret = NoCall
  /\ lhs_type = T_INT /\ rhs_type = T_INT /\ tres = NoCall

\* *e == *twin for the two independently built trees
CompareTwins ==
  /\ phase = "built"
  /\ ret' = [call |-> "operator==", changed |-> FALSE, rhs |-> root.twin,
             out |-> Eq(Store(heap, strs), root.e, root.twin)]
  /\ phase' = "called"
  /\ UNCHANGED <<heap, strs, root, lhs_type, rhs_type, tres>>

\* a tree that differs in one field is built and compared with e
CompareChanged ==
  /\ phase = "built"
  /\ \E c \in Changes(root.desc) :
       LET b == Build(Store(heap, strs), c)
       IN /\ heap' = b.st.h
          /\ strs' = b.st.s
          /\ ret' = [call |-> "operator==", changed |-> TRUE, rhs |-> b.p,
                     out |-> Eq(b.st, root.e, b.p)]
  /\ phase' = "called"
  /\ UNCHANGED <<root, lhs_type, rhs_type, tres>>

NextEq == CompareTwins \/ CompareChanged

SpecEq == InitEq /\ [][NextEq]_vars

\* C3: equality is structural: two independently built trees whose nodes
\* have identical attributes compare equal, and a tree that differs in any
\* single essential field of any one node (a field of its variant, or its
\* type_info) compares unequal.
C3_StructuralEquality ==
  ret.call = "operator==" =>
    ret.out = (IF ret.changed THEN "false" ELSE "true")

(***************************************************************************)
(* Casting.  Constant::cast_number converts the payload between the       *)
(* members of the Datum union; the arithmetic below is the arithmetic of  *)
(* the C++ conversions and loops.                                         *)
(***************************************************************************)
RECURSIVE Pow10(_)
Pow10(n) == IF n <= 0 THEN 1 ELSE 10 * Pow10(n - 1)

\* integer division of C++ truncates toward zero
TruncDiv(a, b) == IF a >= 0 THEN a \div b ELSE -((-a) \div b)

\* (int16_t)v wraps modulo 2^16
int16_t(v) == ((v + 32768) % 65536) - 32768

\* (int32_t)v and (int64_t)v of the values kept here do not wrap
int32_t(v) == v

int64_t(v) == v

\* for (i = 0; i < n; i++) v *= 10;
ScaleUp_noop(v, n) == v

ScaleUp(v, n) == v * Pow10(n)

\* for (i = 0; i < n; i++) v /= 10;
ScaleDown(v, n) == TruncDiv(v, Pow10(n))

\* a float or double payload n / 10^e in lowest terms
RECURSIVE FNorm(_)
FNorm(f) == IF f.e > 0 /\ f.n % 10 = 0 THEN FNorm(Float(f.n \div 10, f.e - 1)) ELSE f

\* (float)v, (double)v of an integer
FloatOf(v) == Float(v, 0)

\* for (i = 0; i < n; i++) f *= 10;
FScaleUp(f, n) == IF f.e >= n THEN Float(f.n, f.e - n) ELSE Float(f.n * Pow10(n - f.e), 0)

\* for (i = 0; i < n; i++) f /= 10;
FScaleDown(f, n) == FNorm(Float(f.n, f.e + n))

\* (int64_t)f truncates toward zero
FTrunc(f) == TruncDiv(f.n, Pow10(f.e))

CastOk(v) == [ok |-> TRUE, v |-> v]

CastCheckFailed == [ok |-> FALSE]

\* the switch of Constant::cast_number over (type_info, new_type_info)
cast_number_value(type_info, new_type_info, constval) ==
  LET t == type_info.type
      n == new_type_info.type
      ToInt(v) == CASE n = "kINT" -> int32_t(v)
                    [] n = "kSMALLINT" -> int16_t(v)
                    [] n = "kBIGINT" -> int64_t(v)
      b == IF constval # 0 THEN 1 ELSE 0
  IN CASE t \in {"kINT", "kSMALLINT", "kBIGINT", "kTIMESTAMP"} ->
            (CASE n \in {"kINT", "kSMALLINT", "kBIGINT"} -> CastOk(ToInt(constval))
               [] n \in {"kDOUBLE", "kFLOAT"} -> CastOk(FloatOf(constval))
               [] n \in {"kNUMERIC", "kDECIMAL"} ->
                    CastOk(ScaleUp(int64_t(constval), new_type_info.scale))
               [] OTHER -> CastCheckFailed)
       [] t \in {"kDOUBLE", "kFLOAT"} ->
            (CASE n \in {"kINT", "kSMALLINT", "kBIGINT"} -> CastOk(ToInt(FTrunc(constval)))
               [] n \in {"kDOUBLE", "kFLOAT"} -> CastOk(constval)
               [] n \in {"kNUMERIC", "kDECIMAL"} ->
                    CastOk(FTrunc(FScaleUp(constval, new_type_info.scale)))
               [] OTHER -> CastCheckFailed)
       [] t \in {"kNUMERIC", "kDECIMAL"} ->
            (CASE n \in {"kINT", "kSMALLINT", "kBIGINT"} ->
                    CastOk(ToInt(ScaleDown(constval, type_info.scale)))
               [] n \in {"kDOUBLE", "kFLOAT"} ->
                    CastOk(FScaleDown(FloatOf(constval), type_info.scale))
               [] n \in {"kNUMERIC", "kDECIMAL"} ->
                    IF new_type_info.scale > type_info.scale
                    THEN CastOk(ScaleUp(constval, new_type_info.scale - type_info.scale))
                    ELSE IF new_type_info.scale < type_info.scale
                    THEN CastOk(ScaleDown(constval, type_info.scale - new_type_info.scale))
                    ELSE CastOk(constval)
               [] OTHER -> CastCheckFailed)
       [] t = "kBOOLEAN" ->
            (CASE n \in {"kINT", "kSMALLINT", "kBIGINT"} -> CastOk(b)
               [] n \in {"kDOUBLE", "kFLOAT"} -> CastOk(FloatOf(b))
               [] n \in {"kNUMERIC", "kDECIMAL"} -> CastOk(ScaleUp(b, new_type_info.scale))
               [] OTHER -> CastCheckFailed)
       [] OTHER -> CastCheckFailed

\* *p = node
SetNode(st, p, node) == Store([st.h EXCEPT ![p] = node], st.s)

\* *a = v for the std::string a
SetString(st, a, v) == Store(st.h, [st.s EXCEPT ![a] = v])

\* Constant::cast_number: the payload is converted, then type_info is set
cast_number(st, p, new_type_info) ==
  LET c == st.h[p]
      r == cast_number_value(c.ti, new_type_info, c.constval)
  IN IF r.ok
     THEN Returned(SetNode(st, p, [c EXCEPT !.constval = r.v, !.ti = new_type_info]), p)
     ELSE Aborted(st)

(***************************************************************************)
(* String payloads are sequences of characters.  DatumToString and        *)
(* StringToDatum are the engine's literal conversions: a number is        *)
(* written in decimal notation, and only decimal notation is read back.   *)
(***************************************************************************)
DigitChars == <<"0", "1", "2", "3", "4", "5", "6", "7", "8", "9">>

RECURSIVE Digits(_)
Digits(n) == IF n < 10 THEN <<DigitChars[n + 1]>>
             ELSE Digits(n \div 10) \o <<DigitChars[(n % 10) + 1]>>

\* the e digits of the fraction n / 10^e, n < 10^e
RECURSIVE FracDigits(_, _)
FracDigits(n, e) == IF e = 0 THEN <<>>
                    ELSE FracDigits(n \div 10, e - 1) \o <<DigitChars[(n % 10) + 1]>>

\* n / 10^e in decimal notation
DecimalString(n, e) ==
  LET a == IF n < 0 THEN -n ELSE n
  IN (IF n < 0 THEN <<"-">> ELSE <<>>)
     \o Digits(a \div Pow10(e))
     \o (IF e > 0 THEN <<".">> \o FracDigits(a % Pow10(e), e) ELSE <<>>)

DatumToString(d, ti) ==
  CASE ti.type = "kBOOLEAN" -> IF d # 0 THEN <<"t">> ELSE <<"f">>
    [] ti.type \in {"kNUMERIC", "kDECIMAL"} -> DecimalString(d, ti.scale)
    [] ti.type \in {"kFLOAT", "kDOUBLE"} -> DecimalString(d.n, d.e)
    [] OTHER -> DecimalString(d, 0)

IsDigit(c) == \E i \in 1..10 : DigitChars[i] = c

DigitValue(c) == (CHOOSE i \in 1..10 : DigitChars[i] = c) - 1

RECURSIVE DigitsValue(_)
DigitsValue(s) == IF s = <<>> THEN 0
                  ELSE 10 * DigitsValue(SubSeq(s, 1, Len(s) - 1)) + DigitValue(s[Len(s)])

\* [-]digits[.digits] read as the fraction n / 10^e
ParseDecimal(s) ==
  LET neg == s # <<>> /\ s[1] = "-"
      u == IF neg THEN Tail(s) ELSE s
      dots == {i \in DOMAIN u : u[i] = "."}
      dot == IF dots = {} THEN Len(u) + 1 ELSE CHOOSE i \in dots : TRUE
      ip == SubSeq(u, 1, dot - 1)
      fp == SubSeq(u, dot + 1, Len(u))
  IN IF /\ Cardinality(dots) <= 1
        /\ ip # <<>>
        /\ dot # Len(u)
        /\ \A i \in DOMAIN ip : IsDigit(ip[i])
        /\ \A i \in DOMAIN fp : IsDigit(fp[i])
     THEN [ok |-> TRUE,
           f |-> Float((IF neg THEN -1 ELSE 1) * DigitsValue(ip \o fp), Len(fp))]
     ELSE [ok |-> FALSE]

StringToDatum(s, ti) ==
  LET r == ParseDecimal(s)
  IN CASE ti.type = "kBOOLEAN" ->
            IF s \in {<<"t">>, <<"f">>} THEN CastOk(IF s = <<"t">> THEN 1 ELSE 0)
            ELSE CastCheckFailed
       [] ~r.ok -> CastCheckFailed
       [] ti.type \in {"kNUMERIC", "kDECIMAL"} -> CastOk(FTrunc(FScaleUp(r.f, ti.scale)))
       [] ti.type \in {"kFLOAT", "kDOUBLE"} -> CastOk(FNorm(r.f))
       [] ti.type = "kSMALLINT" -> CastOk(int16_t(FTrunc(r.f)))
       [] OTHER -> CastOk(FTrunc(r.f))

\* the contents of a std::string after delete
Deleted == <<"deleted">>

\* s->substr(0, n)
substr(s, n) == SubSeq(s, 1, Min(n, Len(s)))

\* Constant::cast_string
cast_string(st, p, new_type_info) ==
  LET c == st.h[p]
      s == c.constval
  IN IF s # nullptr /\ new_type_info.type # "kTEXT" /\ new_type_info.dimension < Len(st.s[s])
     THEN LET ns == NewString(st, substr(st.s[s], new_type_info.dimension))
          IN Returned(SetString(SetNode(ns.st, p, [c EXCEPT !.constval = ns.a,
                                                            !.ti = new_type_info]),
                                s, Deleted), p)
     ELSE Returned(SetNode(st, p, [c EXCEPT !.ti = new_type_info]), p)

\* Constant::cast_from_string
cast_from_string(st, p, new_type_info) ==
  LET c == st.h[p]
      s == c.constval
      d == StringToDatum(st.s[s], new_type_info)
  IN IF d.ok
     THEN Returned(SetString(SetNode(st, p, [c EXCEPT !.constval = d.v, !.ti = new_type_info]),
                             s, Deleted), p)
     ELSE Thrown(st, "InvalidLiteral")

\* Constant::cast_to_string
cast_to_string(st, p, str_type_info) ==
  LET c == st.h[p]
      v == DatumToString(c.constval, c.ti)
      ns == NewString(st, IF str_type_info.type # "kTEXT" /\ Len(v) > str_type_info.dimension
                          THEN substr(v, str_type_info.dimension) ELSE v)
  IN Returned(SetNode(ns.st, p, [c EXCEPT !.constval = ns.a, !.ti = str_type_info]), p)

\* Constant::do_cast
do_cast(st, p, new_type_info) ==
  LET type_info == st.h[p].ti
  IN IF type_info = new_type_info THEN Returned(st, p)
     ELSE IF is_number(new_type_info)
             /\ (is_number(type_info) \/ type_info.type \in {"kTIMESTAMP", "kBOOLEAN"})
     THEN cast_number(st, p, new_type_info)
     ELSE IF is_string(new_type_info) /\ is_string(type_info)
     THEN cast_string(st, p, new_type_info)
     ELSE IF is_string(type_info) THEN cast_from_string(st, p, new_type_info)
     ELSE IF is_string(new_type_info) THEN cast_to_string(st, p, new_type_info)
     ELSE Thrown(st, "InvalidCast")

\* Constant::set_null_value
set_null_value(st, p) ==
  LET c == st.h[p]
  IN IF is_string(c.ti)
     THEN LET ns == NewString(st, <<>>)
          IN Returned(SetNode(ns.st, p, [c EXCEPT !.constval = ns.a]), p)
     ELSE IF is_number(c.ti) \/ is_time(c.ti) \/ c.ti.type \in {"kBOOLEAN", "kNULLT"}
     THEN Returned(SetNode(st, p, [c EXCEPT !.constval = null_value(c.ti)]), p)
     ELSE Aborted(st)

(***************************************************************************)
(* add_cast of every variant.  The call may change the object it is made  *)
(* on (a Constant is cast in place, a CAST gives up its operand, a CASE   *)
(* replaces its branches); the store returned holds these changes, also   *)
(* when the call ends in a throw.                                         *)
(***************************************************************************)
TRANSIENT_DICT_ID == -1

TRANSIENT_DICT(id) == (-id) - 2

\* SQLTypeInfo::is_castable
is_castable(type_info, new_type_info) ==
  \/ type_info.type = new_type_info.type
  \/ is_string(type_info) \/ is_string(new_type_info)
  \/ is_number(type_info) /\ is_number(new_type_info)
  \/ is_number(type_info) /\ new_type_info.type \in {"kBOOLEAN", "kTIMESTAMP"}
  \/ type_info.type \in {"kBOOLEAN", "kTIMESTAMP"} /\ is_number(new_type_info)
  \/ {type_info.type, new_type_info.type} = {"kTIMESTAMP", "kDATE"}

\* Expr::add_cast with the two errors of the restriction exchanged
Expr_add_cast_exchanged(st, p, new_type_info) ==
  LET e == st.h[p]
  IN IF new_type_info = e.ti THEN Returned(st, p)
     ELSE IF /\ is_string(new_type_info) /\ is_string(e.ti)
             /\ new_type_info.compression = "kENCODING_DICT"
             /\ e.ti.compression = "kENCODING_DICT"
             /\ \/ new_type_info.comp_param = e.ti.comp_param
                \/ new_type_info.comp_param = TRANSIENT_DICT(e.ti.comp_param)
     THEN Returned(st, p)
     ELSE IF ~is_castable(e.ti, new_type_info) THEN Thrown(st, "UncastableTypes")
     ELSE IF /\ e.k # "Constant" /\ is_string(new_type_info)
             /\ new_type_info.compression = "kENCODING_DICT"
             /\ new_type_info.comp_param <= TRANSIENT_DICT_ID
     THEN IF is_string(e.ti) /\ e.ti.compression # "kENCODING_DICT"
          THEN Thrown(st, "TransientEncodingOnNonLiteral")
          ELSE Thrown(st, "GroupByRequiresDictEncoding")
     ELSE New(st, UOper(new_type_info, e.agg, "kCAST", p))

\* Expr::add_cast without the test of is_castable
Expr_add_cast_unchecked(st, p, new_type_info) ==
  LET e == st.h[p]
  IN IF new_type_info = e.ti THEN Returned(st, p)
     ELSE IF /\ is_string(new_type_info) /\ is_string(e.ti)
             /\ new_type_info.compression = "kENCODING_DICT"
             /\ e.ti.compression = "kENCODING_DICT"
             /\ \/ new_type_info.comp_param = e.ti.comp_param
                \/ new_type_info.comp_param = TRANSIENT_DICT(e.ti.comp_param)
     THEN Returned(st, p)
     ELSE IF FALSE THEN Thrown(st, "UncastableTypes")
     ELSE IF /\ e.k # "Constant" /\ is_string(new_type_info)
             /\ new_type_info.compression = "kENCODING_DICT"
             /\ new_type_info.comp_param <= TRANSIENT_DICT_ID
     THEN IF is_string(e.ti) /\ e.ti.compression # "kENCODING_DICT"
          THEN Thrown(st, "GroupByRequiresDictEncoding")
          ELSE Thrown(st, "TransientEncodingOnNonLiteral")
     ELSE New(st, UOper(new_type_info, e.agg, "kCAST", p))

\* Expr::add_cast
Expr_add_cast(st, p, new_type_info) ==
  LET e == st.h[p]
  IN IF new_type_info = e.ti THEN Returned(st, p)
     ELSE IF /\ is_string(new_type_info) /\ is_string(e.ti)
             /\ new_type_info.compression = "kENCODING_DICT"
             /\ e.ti.compression = "kENCODING_DICT"
             /\ \/ new_type_info.comp_param = e.ti.comp_param
                \/ new_type_info.comp_param = TRANSIENT_DICT(e.ti.comp_param)
     THEN Returned(st, p)
     ELSE IF ~is_castable(e.ti, new_type_info) THEN Thrown(st, "UncastableTypes")
     ELSE IF /\ e.k # "Constant" /\ is_string(new_type_info)
             /\ new_type_info.compression = "kENCODING_DICT"
             /\ new_type_info.comp_param <= TRANSIENT_DICT_ID
     THEN IF is_string(e.ti) /\ e.ti.compression # "kENCODING_DICT"
          THEN Thrown(st, "GroupByRequiresDictEncoding")
          ELSE Thrown(st, "TransientEncodingOnNonLiteral")
     ELSE New(st, UOper(new_type_info, e.agg, "kCAST", p))

\* Constant::add_cast without the set_null_value() of a null literal
Constant_add_cast_stale(st, p, new_type_info) ==
  LET c == st.h[p]
  IN IF c.is_null
     THEN Returned(SetNode(st, p, [c EXCEPT !.ti = new_type_info]), p)
     ELSE IF new_type_info.compression # c.ti.compression
     THEN IF new_type_info.compression # "kENCODING_NONE"
          THEN LET d == do_cast(st, p, [new_type_info EXCEPT !.compression = "kENCODING_NONE"])
               IN IF d.status # "ok" THEN d ELSE Expr_add_cast(d.st, p, new_type_info)
          ELSE Expr_add_cast(st, p, new_type_info)
     ELSE do_cast(st, p, new_type_info)

\* Constant::add_cast
Constant_add_cast(st, p, new_type_info) ==
  LET c == st.h[p]
  IN IF c.is_null
     THEN set_null_value(SetNode(st, p, [c EXCEPT !.ti = new_type_info]), p)
     ELSE IF new_type_info.compression # c.ti.compression
     THEN IF new_type_info.compression # "kENCODING_NONE"
          THEN LET d == do_cast(st, p, [new_type_info EXCEPT !.compression = "kENCODING_NONE"])
               IN IF d.status # "ok" THEN d ELSE Expr_add_cast(d.st, p, new_type_info)
          ELSE Expr_add_cast(st, p, new_type_info)
     ELSE do_cast(st, p, new_type_info)

\* UOper::add_cast without the collapse of a CAST over a dictionary string
UOper_add_cast_nocollapse(st, p, new_type_info) == Expr_add_cast(st, p, new_type_info)

\* UOper::add_cast
UOper_add_cast(st, p, new_type_info) ==
  LET u == st.h[p]
  IN IF u.optype # "kCAST" THEN Expr_add_cast(st, p, new_type_info)
     ELSE IF /\ is_string(u.ti) /\ is_string(new_type_info)
             /\ new_type_info.compression = "kENCODING_DICT"
             /\ u.ti.compression = "kENCODING_NONE"
     THEN IF u.operand = nullptr THEN Aborted(st)
          ELSE LET oti == st.h[u.operand].ti
               IN IF /\ is_string(oti) /\ oti.compression = "kENCODING_DICT"
                     /\ \/ oti.comp_param = new_type_info.comp_param
                        \/ oti.comp_param = TRANSIENT_DICT(new_type_info.comp_param)
                  THEN Returned(SetNode(st, p, [u EXCEPT !.operand = nullptr]), u.operand)
                  ELSE Expr_add_cast(st, p, new_type_info)
     ELSE Expr_add_cast(st, p, new_type_info)

RECURSIVE add_cast(_, _, _)
RECURSIVE CaseExpr_add_cast_pairs(_, _, _, _)

\* the loop of CaseExpr::add_cast over expr_pair_list, from pair i on
CaseExpr_add_cast_pairs(st, p, i, ti) ==
  IF i > Len(st.h[p].expr_pair_list) THEN Returned(st, p)
  ELSE LET r == add_cast(st, st.h[p].expr_pair_list[i][2], ti)
       IN IF r.status # "ok" THEN r
          ELSE CaseExpr_add_cast_pairs(
                 SetNode(r.st, p, [r.st.h[p] EXCEPT !.expr_pair_list[i][2] = r.p]),
                 p, i + 1, ti)

\* CaseExpr::add_cast that leaves the else-expression as it is
CaseExpr_add_cast_noelse(st, p, new_type_info) ==
  LET type_info == st.h[p].ti
      ti == IF /\ is_string(new_type_info)
               /\ new_type_info.compression = "kENCODING_DICT"
               /\ new_type_info.comp_param = TRANSIENT_DICT_ID
               /\ is_string(type_info)
               /\ type_info.compression = "kENCODING_NONE"
               /\ type_info.comp_param > TRANSIENT_DICT_ID
            THEN [new_type_info EXCEPT !.comp_param = TRANSIENT_DICT(type_info.comp_param)]
            ELSE new_type_info
      ps == CaseExpr_add_cast_pairs(st, p, 1, ti)
  IN IF ps.status # "ok" THEN ps
     ELSE Returned(SetNode(ps.st, p, [ps.st.h[p] EXCEPT !.ti = ti]), p)

\* CaseExpr::add_cast
CaseExpr_add_cast(st, p, new_type_info) ==
  LET type_info == st.h[p].ti
      ti == IF /\ is_string(new_type_info)
               /\ new_type_info.compression = "kENCODING_DICT"
               /\ new_type_info.comp_param = TRANSIENT_DICT_ID
               /\ is_string(type_info)
               /\ type_info.compression = "kENCODING_NONE"
               /\ type_info.comp_param > TRANSIENT_DICT_ID
            THEN [new_type_info EXCEPT !.comp_param = TRANSIENT_DICT(type_info.comp_param)]
            ELSE new_type_info
      ps == CaseExpr_add_cast_pairs(st, p, 1, ti)
  IN IF ps.status # "ok" THEN ps
     ELSE LET e == IF ps.st.h[p].else_expr # nullptr
                   THEN add_cast(ps.st, ps.st.h[p].else_expr, ti)
                   ELSE Returned(ps.st, nullptr)
          IN IF e.status # "ok" THEN e
             ELSE Returned(SetNode(e.st, p, [e.st.h[p] EXCEPT !.else_expr = e.p, !.ti = ti]), p)

\* p->add_cast(new_type_info), dispatched on the dynamic type of *p
add_cast(st, p, new_type_info) ==
  IF p = nullptr THEN Aborted(st)
  ELSE CASE st.h[p].k = "Constant" -> Constant_add_cast(st, p, new_type_info)
         [] st.h[p].k = "UOper" -> UOper_add_cast(st, p, new_type_info)
         [] st.h[p].k = "CaseExpr" -> CaseExpr_add_cast(st, p, new_type_info)
         [] st.h[p].k = "Subquery" -> Aborted(st)
         [] OTHER -> Expr_add_cast(st, p, new_type_info)

(***************************************************************************)
(* Driver of add_cast: the analyzer holds a tree e, calls add_cast on it, *)
(* and calls add_cast on the result again with the type e had at first.   *)
(***************************************************************************)
RECURSIVE Describe(_, _)
\* the tree under p as a description: every field of every node, children
\* and string payloads by value
Describe(st, p) ==
  IF p = nullptr THEN Nil
  ELSE LET n == st.h[p]
       IN [f \in DOMAIN n |->
             IF f \in ChildFields(n.k) THEN Describe(st, n[f])
             ELSE IF f = "value_list"
             THEN [i \in DOMAIN n.value_list |-> Describe(st, n.value_list[i])]
             ELSE IF f = "expr_pair_list"
             THEN [i \in DOMAIN n.expr_pair_list |->
                     <<Describe(st, n.expr_pair_list[i][1]),
                       Describe(st, n.expr_pair_list[i][2])>>]
             ELSE IF f = "constval" /\ is_string(n.ti) THEN st.s[n.constval]
             ELSE n[f]]

MaxConst == 150    \* largest payload of the numeric literals cast

T_SMALLINT == SQLTypeInfo2("kSMALLINT", FALSE)

T_FLOAT == SQLTypeInfo2("kFLOAT", FALSE)

T_DOUBLE == SQLTypeInfo2("kDOUBLE", FALSE)

T_DICT == SQLTypeInfo7("kVARCHAR", 10, 0, FALSE, "kENCODING_DICT", 3)

DecimalSamples ==
  {SQLTypeInfo4(k, MinDim, s, FALSE) : k \in {"kNUMERIC", "kDECIMAL"}, s \in 0..MaxScale}

\* the numeric literals Constant(x, T)
NumericConstants ==
  {Constant(ti, FALSE, x) : ti \in {T_SMALLINT, T_INT, T_BIGINT} \cup DecimalSamples,
                            x \in {-MaxConst, -1, 0, 5, MaxConst}}
  \cup {Constant(T_INT, FALSE, 40000), Constant(T_BIGINT, FALSE, 40000)}
  \cup {Constant(ti, FALSE, x) : ti \in {T_FLOAT, T_DOUBLE},
                                 x \in {Float(15, 1), Float(2, 0), Float(-25, 2)}}

CastChildren ==
  {ColumnVar(T_INT, 1, 1, 0), Constant(T_INT, FALSE, 5), Constant(T_INT, TRUE, 0),
   ColumnVar(T_DICT, 1, 2, 0)}

\* CASE expressions of type ti over branches of their own and of other types
CaseSamples ==
  {CaseExpr(ti, FALSE, << <<ColumnVar(T_BOOLEAN, 2, 1, 1), a>> >>, e) :
     ti \in {T_INT, T_BIGINT}, a \in CastChildren, e \in {Nil} \cup CastChildren}
  \cup {CaseExpr(ti, FALSE, << <<ColumnVar(T_BOOLEAN, 2, 1, 1), Constant(T_VARCHAR, FALSE, <<"a", "b">>)>>,
                             <<Constant(T_BOOLEAN, FALSE, 1), a>> >>, e) :
          ti \in {T_VARCHAR, SQLTypeInfo7("kVARCHAR", 10, 0, FALSE, "kENCODING_NONE", 2)},
          a \in {Constant(T_VARCHAR, FALSE, <<"b">>), Constant(T_INT, FALSE, 5)},
          e \in {Nil, Constant(T_VARCHAR, TRUE, <<>>), ColumnVar(T_VARCHAR, 1, 2, 0)}}

CastSamples ==
  LeafSamples \cup NumericConstants \cup CaseSamples
  \cup {ColumnVar(T_DICT, 1, 2, 0), Subquery(T_INT),
        UOper(SQLTypeInfo4("kVARCHAR", 10, 0, FALSE), FALSE, "kCAST", ColumnVar(T_DICT, 1, 2, 0)),
        UOper(SQLTypeInfo4("kVARCHAR", 10, 0, FALSE), FALSE, "kCAST",
              ColumnVar(SQLTypeInfo7("kVARCHAR", 10, 0, FALSE, "kENCODING_DICT", 4), 1, 3, 0)),
        UOper(T_DICT, FALSE, "kCAST", ColumnVar(T_DICT, 1, 2, 0)),
        UOper(SQLTypeInfo4("kVARCHAR", 10, 0, FALSE), FALSE, "kCAST", ColumnVar(T_VARCHAR, 1, 2, 0)),
        UOper(SQLTypeInfo4("kVARCHAR", 10, 0, FALSE), FALSE, "kUMINUS", ColumnVar(T_DICT, 1, 2, 0))}
  \cup NodesOver(CastChildren, {ColumnVar(T_INT, 1, 1, 0)})

\* dictionary-encoded targets at and below TRANSIENT_DICT_ID
T_TRANSIENT == SQLTypeInfo7("kVARCHAR", 10, 0, FALSE, "kENCODING_DICT", TRANSIENT_DICT_ID)

T_TRANSIENT_OF_DICT ==
  SQLTypeInfo7("kVARCHAR", 10, 0, FALSE, "kENCODING_DICT", TRANSIENT_DICT(T_DICT.comp_param))

CastTargets ==
  {T_SMALLINT, T_INT, T_BIGINT, T_FLOAT, T_DOUBLE, T_BOOLEAN, T_TIMESTAMP, T_DATE,
   T_VARCHAR, T_DICT, SQLTypeInfo4("kVARCHAR", 1, 0, FALSE), T_TRANSIENT, T_TRANSIENT_OF_DICT}
  \cup DecimalSamples

\* the error a call ended with
ErrorOf(r) == IF r.status = "throw" THEN r.error ELSE "none"

InitCast ==
  /\ phase = "built"
  /\ \E t \in CastSamples :
       LET b1 == Build(EmptyStore, t)
           b2 == Build(b1.st, t)
       IN /\ heap = b2.st.h /\ strs = b2.st.s
          /\ root = [e |-> b1.p, twin |-> b2.p, desc |-> Describe(b1.st, b1.p)]
  /\ ret = NoCall
  /\ lhs_type = T_INT /\ rhs_type = T_INT /\ tres = NoCall

\* r = e->add_cast(new_type_info)
AddCast ==
  /\ phase = "built"
  /\ \E new_type_info \in CastTargets \cup {root.desc.ti} :
       LET r == add_cast(Store(heap, strs), root.e, new_type_info)
       IN /\ heap' = r.st.h
          /\ strs' = r.st.s
          /\ ret' = [call |-> "add_cast", target |-> new_type_info,
                     status |-> r.status, p |-> r.p, error |-> ErrorOf(r)]
  /\ phase' = "cast"
  /\ UNCHANGED <<root, lhs_type, rhs_type, tres>>

\* r->add_cast(the type e had)
AddCastBack ==
  /\ phase = "cast"
  /\ ret.status = "ok"
  /\ LET r == add_cast(Store(heap, strs), ret.p, root.desc.ti)
     IN /\ heap' = r.st.h
        /\ strs' = r.st.s
        /\ ret' = [call |-> "add_cast back", target |-> ret.target,
                   status |-> r.status, p |-> r.p, error |-> ErrorOf(r)]
  /\ phase' = "cast back"
  /\ UNCHANGED <<root, lhs_type, rhs_type, tres>>

NextCast == AddCast \/ AddCastBack

SpecCast == InitCast /\ [][NextCast]_vars

\* C4: for every expression e, e.add_cast(e.type_info) succeeds, returns e
\* itself, and leaves the whole subtree of e as it was before the call.
C4_CastIdempotence ==
  ret.call = "add_cast" /\ ret.target = root.desc.ti =>
    /\ ret.status = "ok"
    /\ ret.p = root.e
    /\ Describe(Store(heap, strs), root.e) = root.desc

\* the value of the numeric payload x of type ti, as a fraction n / 10^e
ValueOf(ti, x) ==
  CASE ti.type \in {"kNUMERIC", "kDECIMAL"} -> FNorm(Float(x, ti.scale))
    [] ti.type \in {"kFLOAT", "kDOUBLE"} -> FNorm(x)
    [] OTHER -> Float(x, 0)

\* the integer or decimal type new_type_info holds the value v without loss
Represents(new_type_info, v) ==
  CASE new_type_info.type = "kSMALLINT" -> v.e = 0 /\ v.n >= NULL_SMALLINT /\ v.n <= 32767
    [] new_type_info.type \in {"kINT", "kBIGINT"} -> v.e = 0
    [] new_type_info.type \in {"kNUMERIC", "kDECIMAL"} -> v.e <= new_type_info.scale
    [] OTHER -> FALSE

\* a non-null numeric literal was cast to a type that holds its value
LosslessCast ==
  /\ ret.call \in {"add_cast", "add_cast back"}
  /\ root.desc.k = "Constant"
  /\ ~root.desc.is_null
  /\ is_number(root.desc.ti)
  /\ Represents(ret.target, ValueOf(root.desc.ti, root.desc.constval))

RteOk(S) == [ok |-> TRUE, S |-> S]

NullCall == [ok |-> FALSE]

RECURSIVE collect_rte_idx(_, _, _)
RECURSIVE collect_rte_idx_all(_, _, _)

\* p->collect_rte_idx(rte_idx_set) for every p of ps in turn
collect_rte_idx_all(st, ps, rte_idx_set) ==
  IF ps = <<>> THEN RteOk(rte_idx_set)
  ELSE LET r == collect_rte_idx(st, Head(ps), rte_idx_set)
       IN IF r.ok THEN collect_rte_idx_all(st, Tail(ps), r.S) ELSE r

\* the pointers of a pair list, in the order first, second, first, second ...
RECURSIVE Flat(_)
Flat(pairs) == IF pairs = <<>> THEN <<>> ELSE Head(pairs) \o Flat(Tail(pairs))

\* an optional child, visited only if it is there
Opt(p) == IF p = nullptr THEN <<>> ELSE <<p>>

\* CaseExpr::collect_rte_idx
CaseExpr_collect_rte_idx(st, n, rte_idx_set) ==
  collect_rte_idx_all(st, Flat(n.expr_pair_list) \o Opt(n.else_expr), rte_idx_set)

\* ExtractExpr::collect_rte_idx, DatetruncExpr::collect_rte_idx
ExtractExpr_collect_rte_idx(st, n, rte_idx_set) ==
  collect_rte_idx(st, n.from_expr, rte_idx_set)

collect_rte_idx(st, p, rte_idx_set) ==
  IF p = nullptr THEN NullCall
  ELSE LET n == st.h[p]
       IN CASE n.k \in {"ColumnVar", "Var"} -> RteOk(rte_idx_set \cup {n.rte_idx})
            [] n.k \in {"Constant", "Subquery"} -> RteOk(rte_idx_set)
            [] n.k = "UOper" -> collect_rte_idx(st, n.operand, rte_idx_set)
            [] n.k = "BinOper" ->
                 collect_rte_idx_all(st, <<n.left_operand, n.right_operand>>, rte_idx_set)
            [] n.k = "InValues" ->
                 collect_rte_idx_all(st, <<n.arg>> \o n.value_list, rte_idx_set)
            [] n.k = "CharLengthExpr" -> collect_rte_idx(st, n.arg, rte_idx_set)
            [] n.k = "LikeExpr" ->
                 collect_rte_idx_all(st, <<n.arg, n.like_expr>> \o Opt(n.escape_expr),
                                     rte_idx_set)
            [] n.k = "AggExpr" -> collect_rte_idx_all(st, Opt(n.arg), rte_idx_set)
            [] n.k = "CaseExpr" -> CaseExpr_collect_rte_idx(st, n, rte_idx_set)
            [] n.k \in {"ExtractExpr", "DatetruncExpr"} ->
                 ExtractExpr_collect_rte_idx(st, n, rte_idx_set)

(***************************************************************************)
(* group_predicates of every variant.  The three lists are passed in and  *)
(* come back with the appended elements; status is "abort" when the walk  *)
(* called through a null pointer.                                         *)
(***************************************************************************)
Predicates(scan_predicates, join_predicates, const_predicates) ==
  [status |-> "ok", scan_predicates |-> scan_predicates,
   join_predicates |-> join_predicates, const_predicates |-> const_predicates]

\* the tail shared by the variants: push this on the list rte_idx_set selects
push_back_by_rte(lists, p, r) ==
  IF ~r.ok THEN [lists EXCEPT !.status = "abort"]
  ELSE IF Cardinality(r.S) > 1
  THEN [lists EXCEPT !.join_predicates = Append(@, p)]
  ELSE IF Cardinality(r.S) = 1
  THEN [lists EXCEPT !.scan_predicates = Append(@, p)]
  ELSE [lists EXCEPT !.const_predicates = Append(@, p)]

\* ColumnVar::group_predicates
ColumnVar_group_predicates(st, p, lists) ==
  IF st.h[p].ti.type = "kBOOLEAN"
  THEN [lists EXCEPT !.scan_predicates = Append(@, p)]
  ELSE lists

\* Constant, Subquery: no range-table index below them
Leaf_group_predicates(st, p, lists) == push_back_by_rte(lists, p, RteOk({}))

\* UOper::group_predicates
UOper_group_predicates(st, p, lists) ==
  push_back_by_rte(lists, p, collect_rte_idx(st, st.h[p].operand, {}))

\* InValues::, CharLengthExpr::, LikeExpr::, AggExpr::group_predicates
Arg_group_predicates(st, p, lists) ==
  push_back_by_rte(lists, p, collect_rte_idx(st, st.h[p].arg, {}))

\* CaseExpr::group_predicates
CaseExpr_group_predicates(st, p, lists) ==
  push_back_by_rte(lists, p,
                   collect_rte_idx_all(st, Flat(st.h[p].expr_pair_list)
                                             \o Opt(st.h[p].else_expr), {}))

\* ExtractExpr::group_predicates, DatetruncExpr::group_predicates
ExtractExpr_group_predicates(st, p, lists) ==
  push_back_by_rte(lists, p, collect_rte_idx(st, st.h[p].from_expr, {}))

RECURSIVE group_predicates(_, _, _)

\* BinOper::group_predicates that takes AND apart on the left only
BinOper_group_predicates_leftonly(st, p, lists) ==
  LET n == st.h[p]
  IN IF n.optype = "kAND"
     THEN LET l == group_predicates(st, n.left_operand, lists)
          IN IF l.status # "ok" THEN l
             ELSE push_back_by_rte(l, n.right_operand,
                                   collect_rte_idx(st, n.right_operand, {}))
     ELSE push_back_by_rte(lists, p,
                           collect_rte_idx_all(st, <<n.left_operand, n.right_operand>>, {}))

\* BinOper::group_predicates
BinOper_group_predicates(st, p, lists) ==
  LET n == st.h[p]
  IN IF n.optype = "kAND"
     THEN LET l == group_predicates(st, n.left_operand, lists)
          IN IF l.status # "ok" THEN l ELSE group_predicates(st, n.right_operand, l)
     ELSE push_back_by_rte(lists, p,
                           collect_rte_idx_all(st, <<n.left_operand, n.right_operand>>, {}))

\* p->group_predicates(scan, join, const), dispatched on the dynamic type
group_predicates(st, p, lists) ==
  IF p = nullptr THEN [lists EXCEPT !.status = "abort"]
  ELSE LET k == st.h[p].k
       IN CASE k \in {"ColumnVar", "Var"} -> ColumnVar_group_predicates(st, p, lists)
            [] k \in {"Constant", "Subquery"} -> Leaf_group_predicates(st, p, lists)
            [] k = "UOper" -> UOper_group_predicates(st, p, lists)
            [] k = "BinOper" -> BinOper_group_predicates(st, p, lists)
            [] k \in {"InValues", "CharLengthExpr", "LikeExpr", "AggExpr"} ->
                 Arg_group_predicates(st, p, lists)
            [] k = "CaseExpr" -> CaseExpr_group_predicates(st, p, lists)
            [] k \in {"ExtractExpr", "DatetruncExpr"} ->
                 ExtractExpr_group_predicates(st, p, lists)

(***************************************************************************)
(* Driver of group_predicates: the planner holds three predicates a, b    *)
(* and c, the conjunctions (a AND b) AND c and a AND (b AND c) over them, *)
(* and runs group_predicates on either with three empty lists.            *)
(***************************************************************************)
And(l, r) == BinOper(T_BOOLEAN, FALSE, "kAND", "kONE", l, r)

PredicateSamples ==
  {ColumnVar(T_BOOLEAN, 2, 1, 1), ColumnVar(T_INT, 1, 1, 0),
   Constant(T_BOOLEAN, FALSE, 1),
   BinOper(T_BOOLEAN, FALSE, "kEQ", "kONE", ColumnVar(T_INT, 1, 1, 0), Constant(T_INT, FALSE, 3)),
   BinOper(T_BOOLEAN, FALSE, "kEQ", "kONE", ColumnVar(T_INT, 1, 2, 0), ColumnVar(T_INT, 2, 2, 1)),
   BinOper(T_BOOLEAN, FALSE, "kGT", "kONE", Constant(T_INT, FALSE, 5), Constant(T_INT, FALSE, 1)),
   UOper(T_BOOLEAN, FALSE, "kNOT", ColumnVar(T_BOOLEAN, 2, 1, 1)),
   LikeExpr(ColumnVar(T_VARCHAR, 1, 2, 0), Constant(T_VARCHAR, FALSE, <<"a", "b">>), Nil,
            FALSE, TRUE),
   InValues(ColumnVar(T_INT, 1, 1, 0), <<Constant(T_INT, FALSE, 5)>>),
   InValues(ColumnVar(T_INT, 1, 1, 0), <<Constant(T_INT, FALSE, 5), ColumnVar(T_INT, 2, 2, 1)>>),
   LikeExpr(Constant(T_VARCHAR, FALSE, <<"a">>), ColumnVar(T_VARCHAR, 1, 2, 0), Nil, FALSE, FALSE),
   AggExpr(T_BOOLEAN, "kMIN", ColumnVar(T_BOOLEAN, 2, 1, 1), FALSE),
   AggExpr(T_BIGINT, "kCOUNT", Nil, FALSE),
   CaseExpr(T_BOOLEAN, FALSE,
            << <<ColumnVar(T_BOOLEAN, 2, 1, 1), Constant(T_BOOLEAN, FALSE, 1)>> >>, Nil),
   And(ColumnVar(T_BOOLEAN, 2, 1, 1),
       BinOper(T_BOOLEAN, FALSE, "kEQ", "kONE", ColumnVar(T_INT, 1, 1, 0),
               Constant(T_INT, FALSE, 3)))}

NoLists == [status |-> "none"]

InitPred ==
  /\ phase = "built"
  /\ \E ta \in PredicateSamples, tb \in PredicateSamples, tc \in PredicateSamples :
       LET a == Build(EmptyStore, ta)
           b == Build(a.st, tb)
           c == Build(b.st, tc)
           ab == New(c.st, And(a.p, b.p))
           ab_c == New(ab.st, And(ab.p, c.p))
           bc == New(ab_c.st, And(b.p, c.p))
           a_bc == New(bc.st, And(a.p, bc.p))
       IN /\ heap = a_bc.st.h /\ strs = a_bc.st.s
          /\ root = [a |-> a.p, b |-> b.p, c |-> c.p, left |-> ab_c.p, right |-> a_bc.p]
  /\ ret = [call |-> "group_predicates", left |-> NoLists, right |-> NoLists]
  /\ lhs_type = T_INT /\ rhs_type = T_INT /\ tres = NoCall

\* ((a AND b) AND c)->group_predicates(scan, join, const)
GroupLeftNested ==
  /\ ret.call = "group_predicates" /\ ret.left = NoLists
  /\ ret' = [ret EXCEPT !.left = group_predicates(Store(heap, strs), root.left,
                                                  Predicates(<<>>, <<>>, <<>>))]
  /\ phase' = "called"
  /\ UNCHANGED <<heap, strs, root, lhs_type, rhs_type, tres>>

\* (a AND (b AND c))->group_predicates(scan, join, const)
GroupRightNested ==
  /\ ret.call = "group_predicates" /\ ret.right = NoLists
  /\ ret' = [ret EXCEPT !.right = group_predicates(Store(heap, strs), root.right,
                                                   Predicates(<<>>, <<>>, <<>>))]
  /\ phase' = "called"
  /\ UNCHANGED <<heap, strs, root, lhs_type, rhs_type, tres>>

NextPred == GroupLeftNested \/ GroupRightNested

SpecPred == InitPred /\ [][NextPred]_vars

RECURSIVE Conjuncts(_, _)
\* the conjuncts of the predicate under p: the AND nodes at the top taken apart
Conjuncts(h, p) ==
  IF h[p].k = "BinOper" /\ h[p].optype = "kAND"
  THEN Conjuncts(h, h[p].left_operand) \o Conjuncts(h, h[p].right_operand)
  ELSE <<p>>

\* the three lists hold every conjunct of p once, and nothing else
Partitions(lists, p) ==
  LET all == lists.scan_predicates \o lists.join_predicates \o lists.const_predicates
      cs == Conjuncts(heap, p)
  IN /\ lists.status = "ok"
     /\ \A i \in DOMAIN cs : Cardinality({j \in DOMAIN all : all[j] = cs[i]}) = 1
     /\ Range(all) \subseteq Range(cs)

\* C6: after group_predicates on three empty lists every conjunct of the
\* predicate, whatever its variant, is in exactly one of the scan, join and
\* const lists, and the lists hold nothing but the conjuncts.
C6_PredicatePartition ==
  ret.call = "group_predicates" =>
    /\ ret.left # NoLists => Partitions(ret.left, root.left)
    /\ ret.right # NoLists => Partitions(ret.right, root.right)

\* C7: (a AND b) AND c and a AND (b AND c) give the same scan, join and
\* const lists, with the same elements in the same order.
C7_AndFlattening ==
  ret.call = "group_predicates" /\ ret.left # NoLists /\ ret.right # NoLists =>
    ret.left = ret.right

C7_Witness ==
  /\ ret.call = "group_predicates"
  /\ ret.left # NoLists /\ ret.right # NoLists
  /\ ret.left.status = "ok"
  /\ Len(ret.left.scan_predicates) = 1
  /\ Len(ret.left.join_predicates) = 1
  /\ Len(ret.left.const_predicates) = 1
  /\ ret.left.scan_predicates = <<root.a>>

(***************************************************************************)
(* rewrite_with_targetlist of every variant.  A target list is the list   *)
(* of the expressions of its TargetEntry objects.                         *)
(***************************************************************************)
RECURSIVE ColumnVar_find(_, _, _, _)
\* the loop of ColumnVar::rewrite_with_targetlist from entry i on: the first
\* entry that is a ColumnVar of the same table_id and column_id, or 0
ColumnVar_find(st, n, tlist, i) ==
  IF i > Len(tlist) THEN 0
  ELSE LET colvar == st.h[tlist[i]]
       IN IF /\ colvar.k \in {"ColumnVar", "Var"}
             /\ n.table_id = colvar.table_id
             /\ n.column_id = colvar.column_id
          THEN i
          ELSE ColumnVar_find(st, n, tlist, i + 1)

\* ColumnVar::rewrite_with_targetlist
ColumnVar_rewrite_with_targetlist(st, p, tlist) ==
  LET i == ColumnVar_find(st, st.h[p], tlist, 1)
  IN IF i = 0 THEN Thrown(st, "NotInTargetList") ELSE deep_copy(st, tlist[i])

RECURSIVE AggExpr_find(_, _, _, _)
\* the loop of AggExpr::rewrite_with_targetlist from entry i on
AggExpr_find(st, p, tlist, i) ==
  IF i > Len(tlist) THEN Thrown(st, "NotInTargetList")
  ELSE IF st.h[tlist[i]].k = "AggExpr"
  THEN LET eq == Eq(st, p, tlist[i])
       IN IF eq = "abort" THEN Aborted(st)
          ELSE IF eq = "true" THEN deep_copy(st, tlist[i])
          ELSE AggExpr_find(st, p, tlist, i + 1)
  ELSE AggExpr_find(st, p, tlist, i + 1)

\* AggExpr::rewrite_with_targetlist
AggExpr_rewrite_with_targetlist(st, p, tlist) == AggExpr_find(st, p, tlist, 1)

RECURSIVE rewrite_with_targetlist(_, _, _)
RECURSIVE rewrite_pairs(_, _, _)

\* the loop of CaseExpr::rewrite_with_targetlist
rewrite_pairs(st, ps, tlist) ==
  IF ps = <<>> THEN [st |-> st, ps |-> <<>>, status |-> "ok"]
  ELSE LET w == rewrite_with_targetlist(st, Head(ps)[1], tlist)
       IN IF w.status # "ok" THEN [st |-> w.st, ps |-> <<>>, status |-> w.status, r |-> w]
          ELSE LET t == rewrite_with_targetlist(w.st, Head(ps)[2], tlist)
               IN IF t.status # "ok"
                  THEN [st |-> t.st, ps |-> <<>>, status |-> t.status, r |-> t]
                  ELSE LET rest == rewrite_pairs(t.st, Tail(ps), tlist)
                       IN IF rest.status # "ok" THEN rest
                          ELSE [st |-> rest.st, ps |-> << <<w.p, t.p>> >> \o rest.ps,
                                status |-> "ok"]

\* InValues::rewrite_with_targetlist
InValues_rewrite_with_targetlist(st, p, tlist) ==
  LET n == st.h[p]
      vs == deep_copy_list(st, n.value_list)
  IN IF vs.status # "ok" THEN [st |-> vs.st, p |-> nullptr, status |-> vs.status]
     ELSE LET a == rewrite_with_targetlist(vs.st, n.arg, tlist)
          IN IF a.status # "ok" THEN a
             ELSE New(a.st, [InValues(a.st.h[a.p], vs.ps) EXCEPT !.arg = a.p])

\* CaseExpr::rewrite_with_targetlist
CaseExpr_rewrite_with_targetlist(st, p, tlist) ==
  LET n == st.h[p]
      ps == rewrite_pairs(st, n.expr_pair_list, tlist)
  IN IF ps.status # "ok" THEN ps.r
     ELSE LET e == IF n.else_expr # nullptr
                   THEN rewrite_with_targetlist(ps.st, n.else_expr, tlist)
                   ELSE Returned(ps.st, nullptr)
          IN IF e.status # "ok" THEN e
             ELSE New(e.st, CaseExpr(n.ti, n.agg, ps.ps, e.p))

\* ExtractExpr::rewrite_with_targetlist, DatetruncExpr::rewrite_with_targetlist
ExtractExpr_rewrite_with_targetlist(st, p, tlist) ==
  LET n == st.h[p]
      c == rewrite_with_targetlist(st, n.from_expr, tlist)
  IN IF c.status # "ok" THEN c ELSE New(c.st, [n EXCEPT !.from_expr = c.p])

\* UOper, BinOper, CharLengthExpr, LikeExpr: the node is rebuilt over its
\* rewritten operands (a LIKE pattern and escape are copied)
Rebuild_rewrite_with_targetlist(st, p, tlist) ==
  LET n == st.h[p]
  IN CASE n.k = "UOper" ->
            LET c == rewrite_with_targetlist(st, n.operand, tlist)
            IN IF c.status # "ok" THEN c ELSE New(c.st, UOper(n.ti, n.agg, n.optype, c.p))
       [] n.k = "BinOper" ->
            LET l == rewrite_with_targetlist(st, n.left_operand, tlist)
            IN IF l.status # "ok" THEN l
               ELSE LET r == rewrite_with_targetlist(l.st, n.right_operand, tlist)
                    IN IF r.status # "ok" THEN r
                       ELSE New(r.st, BinOper(n.ti, n.agg, n.optype, n.qualifier, l.p, r.p))
       [] n.k = "CharLengthExpr" ->
            LET c == rewrite_with_targetlist(st, n.arg, tlist)
            IN IF c.status # "ok" THEN c
               ELSE New(c.st, [CharLengthExpr(c.st.h[c.p], n.calc_encoded_length)
                                 EXCEPT !.arg = c.p])
       [] n.k = "LikeExpr" ->
            LET a == rewrite_with_targetlist(st, n.arg, tlist)
            IN IF a.status # "ok" THEN a
               ELSE LET l == deep_copy(a.st, n.like_expr)
                    IN IF l.status # "ok" THEN l
                       ELSE LET e == deep_copy(l.st, n.escape_expr)
                            IN IF e.status # "ok" THEN e
                               ELSE New(e.st,
                                        [LikeExpr(e.st.h[a.p], l.p, e.p, n.is_ilike, n.is_simple)
                                           EXCEPT !.arg = a.p])

\* p->rewrite_with_targetlist(tlist), dispatched on the dynamic type
rewrite_with_targetlist(st, p, tlist) ==
  IF p = nullptr THEN Aborted(st)
  ELSE LET k == st.h[p].k
       IN CASE k = "ColumnVar" -> ColumnVar_rewrite_with_targetlist(st, p, tlist)
            [] k = "AggExpr" -> AggExpr_rewrite_with_targetlist(st, p, tlist)
            [] k = "InValues" -> InValues_rewrite_with_targetlist(st, p, tlist)
            [] k = "CaseExpr" -> CaseExpr_rewrite_with_targetlist(st, p, tlist)
            [] k \in {"ExtractExpr", "DatetruncExpr"} ->
                 ExtractExpr_rewrite_with_targetlist(st, p, tlist)
            [] k \in {"UOper", "BinOper", "CharLengthExpr", "LikeExpr"} ->
                 Rebuild_rewrite_with_targetlist(st, p, tlist)
            [] OTHER -> deep_copy(st, p)

(***************************************************************************)
(* Driver of rewrite_with_targetlist: the planner holds an expression e   *)
(* and a target list, and rewrites e over the target list.                *)
(***************************************************************************)
MaxTargets == 2    \* longest target list built

Col_t1_c1 == ColumnVar(T_INT, 1, 1, 0)

MinOfCol == AggExpr(T_INT, "kMIN", Col_t1_c1, FALSE)

CountStar == AggExpr(T_BIGINT, "kCOUNT", Nil, FALSE)

TargetSamples ==
  {Col_t1_c1, ColumnVar(T_INT, 1, 1, 1), ColumnVar(T_TIMESTAMP, 2, 1, 1),
   MinOfCol, CountStar, Constant(T_INT, FALSE, 5)}

RewriteSamples ==
  {Col_t1_c1, ColumnVar(T_INT, 1, 1, 1), Constant(T_INT, FALSE, 5),
   Constant(T_VARCHAR, FALSE, <<"a", "b">>),
   MinOfCol, CountStar,
   UOper(T_INT, FALSE, "kUMINUS", Col_t1_c1),
   BinOper(T_BOOLEAN, FALSE, "kEQ", "kONE", Col_t1_c1, Constant(T_INT, FALSE, 5)),
   BinOper(T_BOOLEAN, TRUE, "kGT", "kONE", CountStar, Constant(T_INT, FALSE, 5)),
   BinOper(T_INT, TRUE, "kPLUS", "kONE", MinOfCol, Col_t1_c1),
   InValues(Col_t1_c1, <<Constant(T_INT, FALSE, 5)>>),
   CharLengthExpr(Col_t1_c1, FALSE),
   LikeExpr(Col_t1_c1, Constant(T_VARCHAR, FALSE, <<"a", "b">>), Nil, FALSE, TRUE),
   CaseExpr(T_INT, FALSE, << <<BinOper(T_BOOLEAN, FALSE, "kEQ", "kONE", Col_t1_c1,
                                       Constant(T_INT, FALSE, 5)), Col_t1_c1>> >>,
            Constant(T_INT, TRUE, 0)),
   ExtractExpr(T_BIGINT, FALSE, "kYEAR", ColumnVar(T_TIMESTAMP, 2, 1, 1)),
   DatetruncExpr(T_TIMESTAMP, FALSE, "dtDAY", ColumnVar(T_TIMESTAMP, 2, 1, 1))}

InitRewrite ==
  /\ phase = "built"
  /\ \E t \in RewriteSamples, ts \in SeqsUpTo(TargetSamples, MaxTargets) :
       LET b == Build(EmptyStore, t)
           tl == BuildList(b.st, ts)
       IN /\ heap = tl.st.h /\ strs = tl.st.s
          /\ root = [e |-> b.p, tlist |-> tl.ps]
  /\ ret = NoCall
  /\ lhs_type = T_INT /\ rhs_type = T_INT /\ tres = NoCall

\* r = e->rewrite_with_targetlist(tlist)
RewriteWithTargetlist ==
  /\ phase = "built"
  /\ LET r == rewrite_with_targetlist(Store(heap, strs), root.e, root.tlist)
     IN /\ heap' = r.st.h
        /\ strs' = r.st.s
        /\ ret' = [call |-> "rewrite_with_targetlist", status |-> r.status, p |-> r.p]
  /\ phase' = "called"
  /\ UNCHANGED <<root, lhs_type, rhs_type, tres>>

NextRewrite == RewriteWithTargetlist

SpecRewrite == InitRewrite /\ [][NextRewrite]_vars

\* every column referenced by e is in the target list, and every AggExpr of
\* e equals a target-list expression
InTargetList ==
  \A q \in Reach(heap, root.e) :
    /\ heap[q].k = "ColumnVar" =>
         \E i \in DOMAIN root.tlist :
           /\ heap[root.tlist[i]].k = "ColumnVar"
           /\ heap[root.tlist[i]].table_id = heap[q].table_id
           /\ heap[root.tlist[i]].column_id = heap[q].column_id
    /\ heap[q].k = "AggExpr" =>
         \E i \in DOMAIN root.tlist : Eq(Store(heap, strs), q, root.tlist[i]) = "true"

\* the objects of the target list
TargetObjects == UNION {Reach(heap, root.tlist[i]) : i \in DOMAIN root.tlist}

\* C8: when every column referenced by e is in tlist (a ColumnVar entry of
\* the same table_id and column_id) and every AggExpr of e equals an entry,
\* rewrite_with_targetlist(tlist) returns a tree that compares equal to e
\* and is made of fresh objects, none of e and none of the target list.
C8_RewriteRoundTrip ==
  ret.call = "rewrite_with_targetlist" /\ InTargetList =>
    /\ ret.status = "ok"
    /\ Eq(Store(heap, strs), ret.p, root.e) = "true"
    /\ Reach(heap, ret.p) \cap (Reach(heap, root.e) \cup TargetObjects) = {}

(***************************************************************************)
(* BinOper::common_string_type and its driver: the analyzer holds two     *)
(* string types and asks for their common type.                           *)
(***************************************************************************)
common_string_type(type1, type2) ==
  IF ~(is_string(type1) /\ is_string(type2)) THEN CheckFailed
  ELSE
  LET dict == /\ type1.compression = "kENCODING_DICT"
              /\ type2.compression = "kENCODING_DICT"
      same == \/ type1.comp_param = type2.comp_param
              \/ type1.comp_param = TRANSIENT_DICT(type2.comp_param)
      comp == IF dict /\ same THEN "kENCODING_DICT" ELSE "kENCODING_NONE"
      comp_param ==
        IF dict
        THEN IF same THEN Min(type1.comp_param, type2.comp_param) ELSE 0
        ELSE IF /\ type1.compression = "kENCODING_DICT"
                /\ type2.compression = "kENCODING_NONE"
        THEN type1.comp_param
        ELSE IF /\ type1.compression = "kENCODING_NONE"
                /\ type2.compression = "kENCODING_DICT"
        THEN type2.comp_param
        ELSE Max(type1.comp_param, type2.comp_param)
  IN IF type1.type = "kTEXT" \/ type2.type = "kTEXT"
     THEN TypeOk(SQLTypeInfo7("kTEXT", 0, 0, FALSE, comp, comp_param))
     ELSE TypeOk(SQLTypeInfo7("kVARCHAR", Max(type1.dimension, type2.dimension), 0, FALSE,
                              comp, comp_param))

MaxDict == 5    \* largest dictionary id of the string types

DictIds == {0, 3, MaxDict, TRANSIENT_DICT(3), TRANSIENT_DICT(MaxDict)}

StringTypes ==
  {SQLTypeInfo7(t, d, 0, FALSE, c, cp) :
     t \in {"kCHAR", "kVARCHAR", "kTEXT"}, d \in {10, 20},
     c \in {"kENCODING_NONE", "kENCODING_DICT"}, cp \in DictIds}

InitStrings ==
  /\ phase = "strings"
  /\ lhs_type \in StringTypes
  /\ rhs_type \in StringTypes
  /\ tres = NoCall
  /\ heap = NoHeap
  /\ strs = NoHeap
  /\ root = 0
  /\ ret = NoCall

CallCommonStringType ==
  /\ phase = "strings"
  /\ tres' = [call |-> "common_string_type", out |-> common_string_type(lhs_type, rhs_type)]
  /\ UNCHANGED <<phase, lhs_type, rhs_type, heap, strs, root, ret>>

NextStrings == CallCommonStringType

SpecStrings == InitStrings /\ [][NextStrings]_vars

BothDict ==
  /\ tres.call = "common_string_type"
  /\ lhs_type.compression = "kENCODING_DICT"
  /\ rhs_type.compression = "kENCODING_DICT"

DictRelated ==
  \/ lhs_type.comp_param = rhs_type.comp_param
  \/ lhs_type.comp_param = TRANSIENT_DICT(rhs_type.comp_param)
  \/ rhs_type.comp_param = TRANSIENT_DICT(lhs_type.comp_param)

\* C11: common_string_type of two DICT string types is DICT with the smaller
\* comp_param when the comp_params are equal or TRANSIENT_DICT-related, and
\* otherwise has compression NONE and the comp_param of one of the operands;
\* VARCHAR(10, DICT, 3) with VARCHAR(20, DICT, 5) gives VARCHAR(20, NONE, 5),
\* and with VARCHAR(20, DICT, 3) gives VARCHAR(20, DICT, 3).
C11_DictNegotiation ==
  BothDict =>
    /\ tres.out.status = "ok"
    /\ IF DictRelated
       THEN /\ tres.out.ti.compression = "kENCODING_DICT"
            /\ tres.out.ti.comp_param = Min(lhs_type.comp_param, rhs_type.comp_param)
       ELSE /\ tres.out.ti.compression = "kENCODING_NONE"
            /\ tres.out.ti.comp_param \in {lhs_type.comp_param, rhs_type.comp_param}
    /\ (/\ lhs_type = SQLTypeInfo7("kVARCHAR", 10, 0, FALSE, "kENCODING_DICT", 3)
        /\ rhs_type = SQLTypeInfo7("kVARCHAR", 20, 0, FALSE, "kENCODING_DICT", 5))
         => tres.out.ti = SQLTypeInfo7("kVARCHAR", 20, 0, FALSE, "kENCODING_NONE", 5)
    /\ (/\ lhs_type = SQLTypeInfo7("kVARCHAR", 10, 0, FALSE, "kENCODING_DICT", 3)
        /\ rhs_type = SQLTypeInfo7("kVARCHAR", 20, 0, FALSE, "kENCODING_DICT", 3))
         => tres.out.ti = SQLTypeInfo7("kVARCHAR", 20, 0, FALSE, "kENCODING_DICT", 3)

\* the dictionary shortcut of Expr::add_cast applies from type_info to new_type_info
DictShortcut(type_info, new_type_info) ==
  /\ is_string(new_type_info) /\ is_string(type_info)
  /\ new_type_info.compression = "kENCODING_DICT"
  /\ type_info.compression = "kENCODING_DICT"
  /\ \/ new_type_info.comp_param = type_info.comp_param
     \/ new_type_info.comp_param = TRANSIENT_DICT(type_info.comp_param)

\* add_cast was called with a dictionary-encoded string target at or below
\* TRANSIENT_DICT_ID, no shortcut applies and the cast is legal
RestrictedTarget ==
  /\ ret.call = "add_cast"
  /\ is_string(ret.target)
  /\ ret.target.compression = "kENCODING_DICT"
  /\ ret.target.comp_param <= TRANSIENT_DICT_ID
  /\ ret.target # root.desc.ti
  /\ ~DictShortcut(root.desc.ti, ret.target)
  /\ is_castable(root.desc.ti, ret.target)

RestrictionErrors == {"GroupByRequiresDictEncoding", "TransientEncodingOnNonLiteral"}

\* the call is made on a CAST that gives up its operand instead
CastCollapses ==
  /\ root.desc.k = "UOper" /\ root.desc.optype = "kCAST"
  /\ is_string(root.desc.ti) /\ root.desc.ti.compression = "kENCODING_NONE"
  /\ root.desc.operand.k # "nullptr"
  /\ DictShortcut(root.desc.operand.ti, ret.target)

\* C12 as stated: GroupByRequiresDictEncoding when the source is a
\* dictionary-encoded string, TransientEncodingOnNonLiteral otherwise
C12_Original ==
  RestrictedTarget =>
    IF root.desc.k = "Constant" THEN ret.error \notin RestrictionErrors
    ELSE /\ ret.status = "throw"
         /\ ret.error = IF is_string(root.desc.ti)
                           /\ root.desc.ti.compression = "kENCODING_DICT"
                        THEN "GroupByRequiresDictEncoding"
                        ELSE "TransientEncodingOnNonLiteral"

\* C12: add_cast on an expression of the generic add_cast (not a Constant, a
\* CaseExpr, a Subquery or a collapsing CAST) with a DICT string target whose
\* comp_param <= TRANSIENT_DICT_ID fails, with GroupByRequiresDictEncoding
\* when the source is a string that is not dictionary-encoded and with
\* TransientEncodingOnNonLiteral otherwise; a Constant is never rejected by
\* the restriction.
C12_DictRestriction ==
  RestrictedTarget =>
    IF root.desc.k = "Constant" THEN ret.error \notin RestrictionErrors
    ELSE (root.desc.k \notin {"CaseExpr", "Subquery"} /\ ~CastCollapses) =>
           /\ ret.status = "throw"
           /\ ret.error = IF is_string(root.desc.ti)
                             /\ root.desc.ti.compression # "kENCODING_DICT"
                          THEN "GroupByRequiresDictEncoding"
                          ELSE "TransientEncodingOnNonLiteral"

C12_Witness ==
  /\ RestrictedTarget
  /\ root.desc.k = "ColumnVar"
  /\ root.desc.ti = T_DICT
  /\ ret.target = T_TRANSIENT
  /\ ret.error = "TransientEncodingOnNonLiteral"

\* add_cast was called with a target the type of e cannot be cast to
UncastableTarget ==
  /\ ret.call = "add_cast"
  /\ ret.target # root.desc.ti
  /\ ~DictShortcut(root.desc.ti, ret.target)
  /\ ~is_castable(root.desc.ti, ret.target)

\* no CAST node stands over e, and the tree of e is what it was
Untouched ==
  /\ Describe(Store(heap, strs), root.e) = root.desc
  /\ \A q \in DOMAIN heap : heap[q].k = "UOper" => heap[q].operand # root.e

\* C13 as stated: every variant, Constants and CaseExpr included, fails with
\* UncastableTypes and is left as it was
C13_Original ==
  UncastableTarget /\ root.desc.k # "Subquery" =>
    /\ ret.status = "throw"
    /\ ret.error = "UncastableTypes"
    /\ Untouched

\* C13: with a target that differs from the type of e, to which the
\* dictionary shortcut does not apply and which is not castable, add_cast on
\* an expression of the generic add_cast (not a Constant, a CaseExpr or a
\* Subquery) fails with UncastableTypes, produces no cast node and leaves e
\* as it was; a non-null Constant fails with InvalidCast and keeps its type;
\* a null Constant takes the target type and is returned.
C13_UncastableTypes ==
  UncastableTarget =>
    CASE root.desc.k \in {"CaseExpr", "Subquery"} -> TRUE
      [] root.desc.k = "Constant" /\ root.desc.is_null ->
           /\ ret.status = "ok"
           /\ ret.p = root.e
           /\ heap[root.e].ti = ret.target
      [] root.desc.k = "Constant" /\ ~root.desc.is_null ->
           /\ ret.status = "throw"
           /\ ret.error = "InvalidCast"
           /\ Untouched
      [] OTHER ->
           /\ ret.status = "throw"
           /\ ret.error = "UncastableTypes"
           /\ Untouched

C13_Witness ==
  /\ UncastableTarget
  /\ root.desc.k = "BinOper"
  /\ root.desc.ti = T_INT
  /\ ret.target = T_DATE
  /\ ret.error = "UncastableTypes"


(***************************************************************************)
(* Null literals: a null Constant of any kind is cast again and again.     *)
(***************************************************************************)
MaxCalls == 3    \* longest sequence of add_cast calls on one literal

T_NULLT == SQLTypeInfo2("kNULLT", FALSE)

NullTargets ==
  {T_BOOLEAN, T_SMALLINT, T_INT, T_BIGINT, T_DECIMAL, T_FLOAT, T_DOUBLE,
   T_TIMESTAMP, T_DATE, T_VARCHAR, T_DICT, T_TRANSIENT, T_NULLT,
   SQLTypeInfo4("kNUMERIC", 10, 2, FALSE), SQLTypeInfo4("kTIME", 0, 0, FALSE),
   SQLTypeInfo4("kCHAR", 4, 0, TRUE), SQLTypeInfo2("kTEXT", FALSE)}

InitNull ==
  /\ phase = "null literal"
  /\ \E ti \in NullTargets :
       LET b == Build(EmptyStore, Constant(ti, TRUE, 0))
       IN /\ heap = b.st.h /\ strs = b.st.s
          /\ root = [e |-> b.p, desc |-> Describe(b.st, b.p)]
  /\ ret = [call |-> "none", target |-> T_NULLT, status |-> "ok", p |-> 1,
            error |-> "none", calls |-> 0]
  /\ lhs_type = T_INT /\ rhs_type = T_INT /\ tres = NoCall

\* r = c->add_cast(new_type_info), c a null literal
AddCastNull ==
  /\ phase = "null literal"
  /\ ret.calls < MaxCalls
  /\ ret.status = "ok"
  /\ \E new_type_info \in NullTargets :
       LET r == add_cast(Store(heap, strs), root.e, new_type_info)
       IN /\ heap' = r.st.h
          /\ strs' = r.st.s
          /\ ret' = [call |-> "add_cast", target |-> new_type_info,
                     status |-> r.status, p |-> r.p, error |-> ErrorOf(r),
                     calls |-> ret.calls + 1]
  /\ UNCHANGED <<phase, root, lhs_type, rhs_type, tres>>

NextNull == AddCastNull

SpecNull == InitNull /\ [][NextNull]_vars

\* the payload the literal holds is the null sentinel of the kind of ti
HoldsSentinel(c, ti) ==
  CASE ti.type = "kBOOLEAN" -> c.constval = NULL_BOOLEAN
    [] ti.type = "kSMALLINT" -> c.constval = NULL_SMALLINT
    [] ti.type = "kINT" -> c.constval = NULL_INT
    [] ti.type \in {"kBIGINT", "kNUMERIC", "kDECIMAL", "kTIME", "kTIMESTAMP", "kDATE"} ->
         c.constval = NULL_BIGINT
    [] ti.type = "kFLOAT" -> c.constval = NULL_FLOAT
    [] ti.type = "kDOUBLE" -> c.constval = NULL_DOUBLE
    [] ti.type \in {"kCHAR", "kVARCHAR", "kTEXT"} -> strs[c.constval] = <<>>
    [] ti.type = "kNULLT" -> c.constval = 0

MaxStrLen == 3    \* longest value of the literals over two characters

MaxStrDim == 3    \* largest dimension of the bounded string types

hello_world == <<"h", "e", "l", "l", "o", " ", "w", "o", "r", "l", "d">>

hello == <<"h", "e", "l", "l", "o">>

StringValues == SeqsUpTo({"a", "b"}, MaxStrLen) \cup {hello_world}

BoundedStringTypes ==
  {SQLTypeInfo4(t, d, 0, n) : t \in {"kVARCHAR", "kCHAR"}, d \in (1..MaxStrDim) \cup {Len(hello)},
                              n \in BOOLEAN}

TextTypes == {SQLTypeInfo2("kTEXT", n) : n \in BOOLEAN}

InitStringLiteral ==
  /\ phase = "string literal"
  /\ \E ti \in BoundedStringTypes \cup TextTypes, v \in StringValues :
       LET b == Build(EmptyStore, Constant(ti, FALSE, v))
       IN /\ heap = b.st.h /\ strs = b.st.s
          /\ root = [e |-> b.p, desc |-> Describe(b.st, b.p)]
  /\ ret = NoCall
  /\ lhs_type = T_INT /\ rhs_type = T_INT /\ tres = NoCall

\* c->do_cast(new_type_info), c a string literal and new_type_info a string type
DoCast ==
  /\ phase = "string literal"
  /\ \E new_type_info \in BoundedStringTypes \cup TextTypes :
       LET r == do_cast(Store(heap, strs), root.e, new_type_info)
       IN /\ heap' = r.st.h
          /\ strs' = r.st.s
          /\ ret' = [call |-> "do_cast", target |-> new_type_info,
                     status |-> r.status, p |-> r.p, error |-> ErrorOf(r)]
  /\ phase' = "string cast"
  /\ UNCHANGED <<root, lhs_type, rhs_type, tres>>

NextStringLiteral == DoCast

SpecStringLiteral == InitStringLiteral /\ [][NextStringLiteral]_vars

\* the value the literal holds now
StringValueNow == strs[heap[root.e].constval]

\* the first n characters of v, or v when it has no more than n
Truncated(v, n) == IF Len(v) > n THEN SubSeq(v, 1, n) ELSE v

\* C15: after do_cast(T) on a non-null string Constant with T a CHAR or
\* VARCHAR of dimension n, the value is the first n characters of the value
\* before when that was longer than n and is unchanged otherwise, so that
\* Constant('hello world', VARCHAR(5)).do_cast(VARCHAR(5)) leaves 'hello';
\* after do_cast to TEXT the value is unchanged.
C15_StringTruncation ==
  phase = "string cast" =>
    /\ ret.status = "ok"
    /\ StringValueNow = IF ret.target.type = "kTEXT" THEN root.desc.constval
                        ELSE Truncated(root.desc.constval, ret.target.dimension)

(***************************************************************************)
(* C16: the collapse of a CAST over a dictionary-encoded string.           *)
(***************************************************************************)
\* u is a CAST of non-encoded string type over a DICT-encoded string operand
\* and new_ti a DICT string type whose comp_param is the operand's or is
\* related to it by TRANSIENT_DICT
CollapsePattern(u, oti, new_ti) ==
  /\ u.optype = "kCAST"
  /\ is_string(u.ti) /\ u.ti.compression = "kENCODING_NONE"
  /\ is_string(oti) /\ oti.compression = "kENCODING_DICT"
  /\ is_string(new_ti) /\ new_ti.compression = "kENCODING_DICT"
  /\ \/ new_ti.comp_param = oti.comp_param
     \/ new_ti.comp_param = TRANSIENT_DICT(oti.comp_param)

\* C16: add_cast(new_ti) on a UOper CAST of non-encoded string type over a
\* DICT-encoded string operand, with new_ti a DICT string type whose
\* comp_param is the operand's or its TRANSIENT_DICT relative, returns the
\* operand itself and creates no node; on any other UOper it does what the
\* generic add_cast does.
C16_CastCollapse ==
  [][phase = "built" /\ phase' = "cast" /\ heap[root.e].k = "UOper" =>
       LET u == heap[root.e]
           g == Expr_add_cast(Store(heap, strs), root.e, ret'.target)
       IN IF CollapsePattern(u, heap[u.operand].ti, ret'.target)
          THEN /\ ret'.status = "ok"
               /\ ret'.p = u.operand
               /\ Len(heap') = Len(heap)
               /\ heap'[u.operand] = heap[u.operand]
          ELSE /\ heap' = g.st.h
               /\ strs' = g.st.s
               /\ ret'.status = g.status
               /\ ret'.p = g.p
               /\ ret'.error = ErrorOf(g)]_vars

\* CAST(t1.c2 AS VARCHAR(10)) cast to the dictionary type of t1.c2 gave t1.c2
C16_Witness ==
  /\ phase = "cast"
  /\ root.desc.k = "UOper" /\ root.desc.optype = "kCAST"
  /\ root.desc.operand = ColumnVar(T_DICT, 1, 2, 0)
  /\ ret.target = T_TRANSIENT_OF_DICT
  /\ ret.status = "ok"
  /\ ret.p # root.e
  /\ Describe(Store(heap, strs), ret.p) = root.desc.operand

(***************************************************************************)
(* C17: add_cast of a CASE expression.                                     *)
(***************************************************************************)
\* the type the branches of a CASE of type type_info are cast to
EffectiveTarget(type_info, new_ti) ==
  IF /\ is_string(new_ti) /\ new_ti.compression = "kENCODING_DICT"
     /\ new_ti.comp_param = TRANSIENT_DICT_ID
     /\ is_string(type_info) /\ type_info.compression = "kENCODING_NONE"
     /\ type_info.comp_param > TRANSIENT_DICT_ID
  THEN [new_ti EXCEPT !.comp_param = TRANSIENT_DICT(type_info.comp_param)]
  ELSE new_ti

\* the expression at q after the step is what b->add_cast(ti) gives for the
\* expression b before the step
IsCastOf(q, b, ti) ==
  LET r == add_cast(Store(heap, strs), b, ti)
  IN /\ r.status = "ok"
     /\ Describe(Store(heap', strs'), q) = Describe(r.st, r.p)

\* C17: a CaseExpr.add_cast(new_ti) that succeeds returns the CaseExpr node
\* itself, has replaced every then-expression and the else-expression (when
\* present) by the result of its add_cast with the effective target, has left
\* every when-condition untouched, and has set the type of the node to the
\* effective target: new_ti, or new_ti with comp_param TRANSIENT_DICT(current
\* comp_param) when new_ti is a DICT string with comp_param TRANSIENT_DICT_ID
\* and the current type a non-encoded string with comp_param above it.
C17_CaseCast ==
  [][phase = "built" /\ phase' = "cast" /\ heap[root.e].k = "CaseExpr" /\ ret'.status = "ok" =>
       LET c == heap[root.e]
           d == heap'[root.e]
           ti == EffectiveTarget(c.ti, ret'.target)
       IN /\ ret'.p = root.e
          /\ d.k = "CaseExpr"
          /\ d.ti = ti
          /\ Len(d.expr_pair_list) = Len(c.expr_pair_list)
          /\ \A i \in DOMAIN c.expr_pair_list :
                /\ d.expr_pair_list[i][1] = c.expr_pair_list[i][1]
                /\ Describe(Store(heap', strs'), d.expr_pair_list[i][1])
                     = Describe(Store(heap, strs), c.expr_pair_list[i][1])
                /\ IsCastOf(d.expr_pair_list[i][2], c.expr_pair_list[i][2], ti)
          /\ IF c.else_expr = nullptr THEN d.else_expr = nullptr
             ELSE IsCastOf(d.else_expr, c.else_expr, ti)]_vars

\* CASE WHEN .. THEN 'ab' WHEN .. THEN 'b' ELSE NULL END of a string type with
\* comp_param 2, cast to the transient dictionary type
C17_Witness ==
  /\ phase = "cast"
  /\ root.desc.k = "CaseExpr"
  /\ root.desc.ti.comp_param = 2
  /\ root.desc.else_expr.k = "Constant"
  /\ ret.target = T_TRANSIENT
  /\ ret.status = "ok"
  /\ heap[root.e].ti.comp_param = TRANSIENT_DICT(2)
  /\ heap[heap[root.e].else_expr].ti = heap[root.e].ti

(***************************************************************************)
(* C18: classification of a conjunct by the range-table entries it uses.   *)
(***************************************************************************)
\* the range-table indices referenced anywhere inside the node p
RteIndices(h, p) == {h[q].rte_idx : q \in {x \in Reach(h, p) : h[x].k \in {"ColumnVar", "Var"}}}

\* the list p belongs to by the number of range-table entries it references
ClassOf(h, p) ==
  LET n == Cardinality(RteIndices(h, p))
  IN IF n > 1 THEN "join" ELSE IF n = 1 THEN "scan" ELSE "const"

\* every conjunct of p is in the list its range-table entries select
Classified(lists, p) ==
  /\ lists.status = "ok"
  /\ \A q \in Range(Conjuncts(heap, p)) :
        /\ ClassOf(heap, q) = "join" => q \in Range(lists.join_predicates)
        /\ ClassOf(heap, q) = "scan" => q \in Range(lists.scan_predicates)
        /\ ClassOf(heap, q) = "const" => q \in Range(lists.const_predicates)

\* C18: group_predicates puts every node that is not an AND on the join list
\* when the set S of range-table indices referenced anywhere inside it (an
\* InValues value list and a LikeExpr pattern and escape included) has more
\* than one element, on the scan list when S has one element and on the
\* const list when S is empty.
C18_ClassificationByRte ==
  ret.call = "group_predicates" =>
    /\ ret.left # NoLists => Classified(ret.left, root.left)
    /\ ret.right # NoLists => Classified(ret.right, root.right)

(***************************************************************************)
(* normalize_simple_predicate.  The call returns the new expression (or    *)
(* nullptr) and the value it left in the reference parameter rte_idx.      *)
(***************************************************************************)
\* COMMUTE_COMPARISON
COMMUTE_COMPARISON(op) ==
  CASE op = "kLT" -> "kGT"
    [] op = "kGT" -> "kLT"
    [] op = "kLE" -> "kGE"
    [] op = "kGE" -> "kLE"
    [] OTHER -> op

Normalized(r, rte_idx) == [st |-> r.st, p |-> r.p, status |-> r.status, rte_idx |-> rte_idx]

\* BinOper::normalize_simple_predicate that swaps the operands of the
\* mirrored form but keeps the operator
normalize_simple_predicate_uncommuted(st, p) ==
  LET n == st.h[p]
  IN IF ~IS_COMPARISON(n.optype) \/ n.qualifier # "kONE"
     THEN Normalized(Returned(st, nullptr), -1)
     ELSE IF n.left_operand = nullptr \/ n.right_operand = nullptr
     THEN Normalized(Thrown(st, "bad_typeid"), -1)
     ELSE IF st.h[n.left_operand].k = "ColumnVar" /\ st.h[n.right_operand].k = "Constant"
     THEN Normalized(deep_copy(st, p), st.h[n.left_operand].rte_idx)
     ELSE IF st.h[n.left_operand].k = "Constant" /\ st.h[n.right_operand].k = "ColumnVar"
     THEN LET r == deep_copy(st, n.right_operand)
              l == deep_copy(r.st, n.left_operand)
          IN Normalized(New(l.st, BinOper(n.ti, n.agg, n.optype, n.qualifier, r.p, l.p)),
                        st.h[n.right_operand].rte_idx)
     ELSE Normalized(Returned(st, nullptr), -1)

\* BinOper::normalize_simple_predicate
normalize_simple_predicate(st, p) ==
  LET n == st.h[p]
  IN IF ~IS_COMPARISON(n.optype) \/ n.qualifier # "kONE"
     THEN Normalized(Returned(st, nullptr), -1)
     ELSE IF n.left_operand = nullptr \/ n.right_operand = nullptr
     THEN Normalized(Thrown(st, "bad_typeid"), -1)
     ELSE IF st.h[n.left_operand].k = "ColumnVar" /\ st.h[n.right_operand].k = "Constant"
     THEN Normalized(deep_copy(st, p), st.h[n.left_operand].rte_idx)
     ELSE IF st.h[n.left_operand].k = "Constant" /\ st.h[n.right_operand].k = "ColumnVar"
     THEN LET r == deep_copy(st, n.right_operand)
              l == deep_copy(r.st, n.left_operand)
          IN Normalized(New(l.st, BinOper(n.ti, n.agg, COMMUTE_COMPARISON(n.optype),
                                          n.qualifier, r.p, l.p)),
                        st.h[n.right_operand].rte_idx)
     ELSE Normalized(Returned(st, nullptr), -1)

(***************************************************************************)
(* Driver: one binary operator over two operands is normalized.            *)
(***************************************************************************)
NormOps == {"kEQ", "kNE", "kLT", "kGT", "kLE", "kGE", "kAND", "kPLUS"}

NormOperands ==
  {ColumnVar(T_INT, 1, 1, 0), ColumnVar(T_VARCHAR, 2, 2, 1),
   Var(T_INT, 1, 1, 0, "kOUTPUT", 2),
   Constant(T_INT, FALSE, 3), Constant(T_VARCHAR, FALSE, <<"a", "b">>),
   Constant(T_INT, TRUE, 0),
   UOper(T_INT, FALSE, "kUMINUS", ColumnVar(T_INT, 1, 1, 0))}

InitNorm ==
  /\ phase = "built"
  /\ \E op \in NormOps, q \in {"kONE", "kANY", "kALL"}, l \in NormOperands, r \in NormOperands :
       LET b == Build(EmptyStore, BinOper(T_BOOLEAN, FALSE, op, q, l, r))
       IN /\ heap = b.st.h /\ strs = b.st.s
          /\ root = [e |-> b.p, desc |-> Describe(b.st, b.p), heap |-> b.st.h, strs |-> b.st.s]
  /\ ret = NoCall
  /\ lhs_type = T_INT /\ rhs_type = T_INT /\ tres = NoCall

\* r = e->normalize_simple_predicate(rte_idx)
NormalizeSimplePredicate ==
  /\ phase = "built"
  /\ LET r == normalize_simple_predicate(Store(heap, strs), root.e)
     IN /\ heap' = r.st.h
        /\ strs' = r.st.s
        /\ ret' = [call |-> "normalize_simple_predicate", status |-> r.status, p |-> r.p,
                   rte_idx |-> r.rte_idx]
  /\ phase' = "normalized"
  /\ UNCHANGED <<root, lhs_type, rhs_type, tres>>

NextNorm == NormalizeSimplePredicate

SpecNorm == InitNorm /\ [][NextNorm]_vars

\* the operator with the sides of the comparison exchanged
Commuted(op) ==
  CASE op = "kEQ" -> "kEQ" [] op = "kNE" -> "kNE" [] op = "kLT" -> "kGT"
    [] op = "kGT" -> "kLT" [] op = "kLE" -> "kGE" [] op = "kGE" -> "kLE"

\* the tree under p consists of objects and strings made by the call
FreshTree(p) ==
  \A q \in Reach(heap, p) :
    /\ q > Len(root.heap)
    /\ heap[q].k = "Constant" /\ is_string(heap[q].ti) => heap[q].constval > Len(root.strs)

\* no object and no string that was there before the call has changed
ReceiverUnmodified ==
  /\ \A q \in DOMAIN root.heap : heap[q] = root.heap[q]
  /\ \A a \in DOMAIN root.strs : strs[a] = root.strs[a]

\* C19: normalize_simple_predicate on a comparison with qualifier ONE over a
\* ColumnVar on the left and a Constant on the right returns a deep copy of
\* the BinOper and rte_idx of the ColumnVar; over a Constant on the left and
\* a ColumnVar on the right it returns a new BinOper with the operands
\* swapped and the operator commuted, and rte_idx of the ColumnVar; in every
\* other case it returns null and rte_idx -1.  The receiver is not modified.
C19_NormalizeSimplePredicate ==
  phase = "normalized" =>
    LET b == root.desc
        simple == IS_COMPARISON(b.optype) /\ b.qualifier = "kONE"
    IN /\ ret.status = "ok"
       /\ ReceiverUnmodified
       /\ IF simple /\ b.left_operand.k = "ColumnVar" /\ b.right_operand.k = "Constant"
          THEN /\ ret.p # nullptr
               /\ FreshTree(ret.p)
               /\ Describe(Store(heap, strs), ret.p) = b
               /\ ret.rte_idx = b.left_operand.rte_idx
          ELSE IF simple /\ b.left_operand.k = "Constant" /\ b.right_operand.k = "ColumnVar"
          THEN /\ ret.p # nullptr
               /\ FreshTree(ret.p)
               /\ Describe(Store(heap, strs), ret.p)
                    = [b EXCEPT !.optype = Commuted(b.optype),
                                !.left_operand = b.right_operand,
                                !.right_operand = b.left_operand]
               /\ ret.rte_idx = b.right_operand.rte_idx
          ELSE ret.p = nullptr /\ ret.rte_idx = -1

\* 3 < t1.c1 became t1.c1 > 3 with the range-table index of t1
C19_Witness ==
  /\ phase = "normalized"
  /\ root.desc = BinOper(T_BOOLEAN, FALSE, "kLT", "kONE",
                         Constant(T_INT, FALSE, 3), ColumnVar(T_INT, 1, 1, 0))
  /\ Describe(Store(heap, strs), ret.p)
       = BinOper(T_BOOLEAN, FALSE, "kGT", "kONE",
                 ColumnVar(T_INT, 1, 1, 0), Constant(T_INT, FALSE, 3))
  /\ ret.rte_idx = 0

(***************************************************************************)
(* ColumnVar::rewrite_with_child_targetlist.  tlist holds the expressions  *)
(* of the target entries, in order.                                        *)
(***************************************************************************)
RECURSIVE ColumnVar_child_loop(_, _, _, _)
\* the loop over tlist from the entry whose position is varno on
ColumnVar_child_loop(st, n, tlist, varno) ==
  IF varno > Len(tlist) THEN Thrown(st, "NotInChildTargetList")
  ELSE LET e == tlist[varno]
       IN IF e = nullptr \/ st.h[e].k \notin {"ColumnVar", "Var"}
          THEN Thrown(st, "TargetListNotAllColumns")
          ELSE LET colvar == st.h[e]
               IN IF n.table_id = colvar.table_id /\ n.column_id = colvar.column_id
                  THEN New(st, Var(colvar.ti, colvar.table_id, colvar.column_id,
                                   colvar.rte_idx, "kINPUT_OUTER", varno))
                  ELSE ColumnVar_child_loop(st, n, tlist, varno + 1)

\* ColumnVar::rewrite_with_child_targetlist
ColumnVar_rewrite_with_child_targetlist(st, p, tlist) ==
  ColumnVar_child_loop(st, st.h[p], tlist, 1)

MaxChildTargets == 3    \* longest child target list built

ChildTargetSamples ==
  {Col_t1_c1, ColumnVar(T_BIGINT, 1, 1, 1), ColumnVar(T_TIMESTAMP, 2, 1, 1),
   Var(T_INT, 1, 2, 0, "kINPUT_INNER", 4), MinOfCol, Constant(T_INT, FALSE, 5)}

InitChild ==
  /\ phase = "built"
  /\ \E t \in {Col_t1_c1, ColumnVar(T_INT, 1, 2, 0), ColumnVar(T_INT, 3, 1, 2)},
        ts \in SeqsUpTo(ChildTargetSamples, MaxChildTargets) :
       LET b == Build(EmptyStore, t)
           tl == BuildList(b.st, ts)
       IN /\ heap = tl.st.h /\ strs = tl.st.s
          /\ root = [e |-> b.p, tlist |-> tl.ps]
  /\ ret = NoCall
  /\ lhs_type = T_INT /\ rhs_type = T_INT /\ tres = NoCall

\* r = e->rewrite_with_child_targetlist(tlist), e a ColumnVar
RewriteWithChildTargetlist ==
  /\ phase = "built"
  /\ LET r == ColumnVar_rewrite_with_child_targetlist(Store(heap, strs), root.e, root.tlist)
     IN /\ heap' = r.st.h
        /\ strs' = r.st.s
        /\ ret' = [call |-> "rewrite_with_child_targetlist", status |-> r.status, p |-> r.p,
                   error |-> ErrorOf(r)]
  /\ phase' = "called"
  /\ UNCHANGED <<root, lhs_type, rhs_type, tres>>

NextChild == RewriteWithChildTargetlist

SpecChild == InitChild /\ [][NextChild]_vars

\* the positions of the entries of tlist that are not columns
NonColumns == {i \in DOMAIN root.tlist : heap[root.tlist[i]].k \notin {"ColumnVar", "Var"}}

\* the positions of the column entries with the table and column of e
Matches ==
  {i \in DOMAIN root.tlist :
     /\ heap[root.tlist[i]].k \in {"ColumnVar", "Var"}
     /\ heap[root.tlist[i]].table_id = heap[root.e].table_id
     /\ heap[root.tlist[i]].column_id = heap[root.e].column_id}

\* the call returned a new Var for the entry at position i
ReturnedVarFor(i) ==
  /\ ret.status = "ok"
  /\ ret.p > Len(heap) - 1
  /\ heap[ret.p] = Var(heap[root.tlist[i]].ti, heap[root.tlist[i]].table_id,
                       heap[root.tlist[i]].column_id, heap[root.tlist[i]].rte_idx,
                       "kINPUT_OUTER", i)

\* C20: rewrite_with_child_targetlist(tlist) on a ColumnVar fails with
\* TargetListNotAllColumns if any entry of tlist, at whatever position, is not
\* a ColumnVar; otherwise it returns a Var with which_row INPUT_OUTER and
\* varno the 1-based position of the first entry with the same table_id and
\* column_id, and fails if there is no such entry.
C20_ChildTargetList ==
  phase = "called" =>
    IF NonColumns # {}
    THEN ret.status = "throw" /\ ret.error = "TargetListNotAllColumns"
    ELSE IF Matches # {}
    THEN ReturnedVarFor(CHOOSE i \in Matches : \A j \in Matches : i <= j)
    ELSE ret.status = "throw" /\ ret.error = "NotInChildTargetList"

(***************************************************************************)
(* rewrite_with_child_targetlist and rewrite_agg_to_var of every variant.  *)
(* A list walk returns the new pointers, or in r the result of the call    *)
(* that failed.                                                            *)
(***************************************************************************)
\* Var(ti, which_row, varno): a Var that names no column
Var3(ti, which_row, varno) == Var(ti, 0, 0, -1, which_row, varno)

ListOk(st, ps) == [st |-> st, ps |-> ps, status |-> "ok"]

ListFailed(r) == [st |-> r.st, ps |-> <<>>, status |-> r.status, r |-> r]

\* the copies of a list, for a walk that stops at the first failure
deep_copy_values(st, ps) ==
  LET vs == deep_copy_list(st, ps)
  IN IF vs.status # "ok" THEN ListFailed(Aborted(vs.st)) ELSE ListOk(vs.st, vs.ps)

RECURSIVE ColumnVar_agg_loop_skipping(_, _, _, _, _)
\* the loop of ColumnVar::rewrite_agg_to_var with a varno that does not
\* count the aggregate slots
ColumnVar_agg_loop_skipping(st, n, tlist, i, varno) ==
  IF i > Len(tlist) THEN Thrown(st, "NotInTargetList")
  ELSE LET e == st.h[tlist[i]]
       IN IF e.k # "AggExpr"
          THEN IF e.k \notin {"ColumnVar", "Var"}
               THEN Thrown(st, "TargetListNotAllColumnsOrAggs")
               ELSE IF n.table_id = e.table_id /\ n.column_id = e.column_id
               THEN New(st, Var(e.ti, e.table_id, e.column_id, e.rte_idx, "kINPUT_OUTER", varno))
               ELSE ColumnVar_agg_loop_skipping(st, n, tlist, i + 1, varno + 1)
          ELSE ColumnVar_agg_loop_skipping(st, n, tlist, i + 1, varno)

ColumnVar_rewrite_agg_to_var_skipping(st, p, tlist) ==
  ColumnVar_agg_loop_skipping(st, st.h[p], tlist, 1, 1)

RECURSIVE ColumnVar_agg_loop(_, _, _, _)
\* the loop of ColumnVar::rewrite_agg_to_var from the entry at position varno on
ColumnVar_agg_loop(st, n, tlist, varno) ==
  IF varno > Len(tlist) THEN Thrown(st, "NotInTargetList")
  ELSE LET e == st.h[tlist[varno]]
       IN IF e.k # "AggExpr"
          THEN IF e.k \notin {"ColumnVar", "Var"}
               THEN Thrown(st, "TargetListNotAllColumnsOrAggs")
               ELSE IF n.table_id = e.table_id /\ n.column_id = e.column_id
               THEN New(st, Var(e.ti, e.table_id, e.column_id, e.rte_idx, "kINPUT_OUTER", varno))
               ELSE ColumnVar_agg_loop(st, n, tlist, varno + 1)
          ELSE ColumnVar_agg_loop(st, n, tlist, varno + 1)

\* ColumnVar::rewrite_agg_to_var
ColumnVar_rewrite_agg_to_var(st, p, tlist) == ColumnVar_agg_loop(st, st.h[p], tlist, 1)

RECURSIVE Var_agg_loop(_, _, _, _)
\* the loop of Var::rewrite_agg_to_var: *e == *this is e's operator==
Var_agg_loop(st, p, tlist, varno) ==
  IF varno > Len(tlist) THEN Thrown(st, "NotInTargetList")
  ELSE LET eq == Eq(st, tlist[varno], p)
       IN IF eq = "abort" THEN Aborted(st)
          ELSE IF eq = "true"
          THEN New(st, Var3(st.h[tlist[varno]].ti, "kINPUT_OUTER", varno))
          ELSE Var_agg_loop(st, p, tlist, varno + 1)

\* Var::rewrite_agg_to_var
Var_rewrite_agg_to_var(st, p, tlist) == Var_agg_loop(st, p, tlist, 1)

RECURSIVE AggExpr_agg_loop(_, _, _, _)
\* the loop of AggExpr::rewrite_agg_to_var
AggExpr_agg_loop(st, p, tlist, varno) ==
  IF varno > Len(tlist) THEN Thrown(st, "NotInTargetList")
  ELSE IF st.h[tlist[varno]].k = "AggExpr"
  THEN LET eq == Eq(st, p, tlist[varno])
       IN IF eq = "abort" THEN Aborted(st)
          ELSE IF eq = "true"
          THEN New(st, Var3(st.h[tlist[varno]].ti, "kINPUT_OUTER", varno))
          ELSE AggExpr_agg_loop(st, p, tlist, varno + 1)
  ELSE AggExpr_agg_loop(st, p, tlist, varno + 1)

\* AggExpr::rewrite_agg_to_var
AggExpr_rewrite_agg_to_var(st, p, tlist) == AggExpr_agg_loop(st, p, tlist, 1)

RECURSIVE rewrite_with_child_targetlist(_, _, _)
RECURSIVE rewrite_with_child_targetlist_pairs(_, _, _)

\* the loop of CaseExpr::rewrite_with_child_targetlist
rewrite_with_child_targetlist_pairs(st, ps, tlist) ==
  IF ps = <<>> THEN ListOk(st, <<>>)
  ELSE LET w == rewrite_with_child_targetlist(st, Head(ps)[1], tlist)
       IN IF w.status # "ok" THEN ListFailed(w)
          ELSE LET t == rewrite_with_child_targetlist(w.st, Head(ps)[2], tlist)
               IN IF t.status # "ok" THEN ListFailed(t)
                  ELSE LET rest == rewrite_with_child_targetlist_pairs(t.st, Tail(ps), tlist)
                       IN IF rest.status # "ok" THEN rest
                          ELSE ListOk(rest.st, << <<w.p, t.p>> >> \o rest.ps)

\* InValues::rewrite_with_child_targetlist that puts the values themselves,
\* not copies of them, in the new list
InValues_rewrite_with_child_targetlist_sharing(st, p, tlist) ==
  LET n == st.h[p]
      a == rewrite_with_child_targetlist(st, n.arg, tlist)
  IN IF a.status # "ok" THEN a
     ELSE New(a.st, [InValues(a.st.h[a.p], n.value_list) EXCEPT !.arg = a.p])

\* InValues::rewrite_with_child_targetlist
InValues_rewrite_with_child_targetlist(st, p, tlist) ==
  LET n == st.h[p]
      vs == deep_copy_values(st, n.value_list)
  IN IF vs.status # "ok" THEN vs.r
     ELSE LET a == rewrite_with_child_targetlist(vs.st, n.arg, tlist)
          IN IF a.status # "ok" THEN a
             ELSE New(a.st, [InValues(a.st.h[a.p], vs.ps) EXCEPT !.arg = a.p])

\* AggExpr::rewrite_with_child_targetlist
AggExpr_rewrite_with_child_targetlist(st, p, tlist) ==
  LET n == st.h[p]
      a == IF n.arg # nullptr THEN rewrite_with_child_targetlist(st, n.arg, tlist)
           ELSE Returned(st, nullptr)
  IN IF a.status # "ok" THEN a ELSE New(a.st, AggExpr(n.ti, n.aggtype, a.p, n.is_distinct))

\* CaseExpr::rewrite_with_child_targetlist
CaseExpr_rewrite_with_child_targetlist(st, p, tlist) ==
  LET n == st.h[p]
      ps == rewrite_with_child_targetlist_pairs(st, n.expr_pair_list, tlist)
  IN IF ps.status # "ok" THEN ps.r
     ELSE LET e == IF n.else_expr # nullptr
                   THEN rewrite_with_child_targetlist(ps.st, n.else_expr, tlist)
                   ELSE Returned(ps.st, nullptr)
          IN IF e.status # "ok" THEN e
             ELSE New(e.st, CaseExpr(n.ti, n.agg, ps.ps, e.p))

\* ExtractExpr::rewrite_with_child_targetlist, DatetruncExpr::rewrite_with_child_targetlist
ExtractExpr_rewrite_with_child_targetlist(st, p, tlist) ==
  LET n == st.h[p]
      c == rewrite_with_child_targetlist(st, n.from_expr, tlist)
  IN IF c.status # "ok" THEN c ELSE New(c.st, [n EXCEPT !.from_expr = c.p])

\* UOper, BinOper, CharLengthExpr, LikeExpr: the node is rebuilt with its
\* own attributes over its rewritten operands (a LIKE pattern and escape are
\* copied)
Rebuild_rewrite_with_child_targetlist(st, p, tlist) ==
  LET n == st.h[p]
  IN CASE n.k = "UOper" ->
            LET c == rewrite_with_child_targetlist(st, n.operand, tlist)
            IN IF c.status # "ok" THEN c ELSE New(c.st, UOper(n.ti, n.agg, n.optype, c.p))
       [] n.k = "BinOper" ->
            LET l == rewrite_with_child_targetlist(st, n.left_operand, tlist)
            IN IF l.status # "ok" THEN l
               ELSE LET r == rewrite_with_child_targetlist(l.st, n.right_operand, tlist)
                    IN IF r.status # "ok" THEN r
                       ELSE New(r.st, BinOper(n.ti, n.agg, n.optype, n.qualifier, l.p, r.p))
       [] n.k = "CharLengthExpr" ->
            LET c == rewrite_with_child_targetlist(st, n.arg, tlist)
            IN IF c.status # "ok" THEN c
               ELSE New(c.st, [CharLengthExpr(c.st.h[c.p], n.calc_encoded_length)
                                 EXCEPT !.arg = c.p])
       [] n.k = "LikeExpr" ->
            LET a == rewrite_with_child_targetlist(st, n.arg, tlist)
            IN IF a.status # "ok" THEN a
               ELSE LET l == deep_copy(a.st, n.like_expr)
                    IN IF l.status # "ok" THEN l
                       ELSE LET e == deep_copy(l.st, n.escape_expr)
                            IN IF e.status # "ok" THEN e
                               ELSE New(e.st,
                                        [LikeExpr(e.st.h[a.p], l.p, e.p, n.is_ilike, n.is_simple)
                                           EXCEPT !.arg = a.p])

\* p->rewrite_with_child_targetlist(tlist), dispatched on the dynamic type
rewrite_with_child_targetlist(st, p, tlist) ==
  IF p = nullptr THEN Aborted(st)
  ELSE LET k == st.h[p].k
       IN CASE k = "ColumnVar" -> ColumnVar_rewrite_with_child_targetlist(st, p, tlist)
            [] k = "Var" -> deep_copy(st, p)
            [] k = "AggExpr" -> AggExpr_rewrite_with_child_targetlist(st, p, tlist)
            [] k = "InValues" -> InValues_rewrite_with_child_targetlist(st, p, tlist)
            [] k = "CaseExpr" -> CaseExpr_rewrite_with_child_targetlist(st, p, tlist)
            [] k \in {"ExtractExpr", "DatetruncExpr"} -> ExtractExpr_rewrite_with_child_targetlist(st, p, tlist)
            [] k \in {"UOper", "BinOper", "CharLengthExpr", "LikeExpr"} ->
                 Rebuild_rewrite_with_child_targetlist(st, p, tlist)
            [] OTHER -> deep_copy(st, p)

RECURSIVE rewrite_agg_to_var(_, _, _)
RECURSIVE rewrite_agg_to_var_list(_, _, _)
RECURSIVE rewrite_agg_to_var_pairs(_, _, _)

\* v->rewrite_agg_to_var(tlist) for every v of ps in turn
rewrite_agg_to_var_list(st, ps, tlist) ==
  IF ps = <<>> THEN ListOk(st, <<>>)
  ELSE LET v == rewrite_agg_to_var(st, Head(ps), tlist)
       IN IF v.status # "ok" THEN ListFailed(v)
          ELSE LET rest == rewrite_agg_to_var_list(v.st, Tail(ps), tlist)
               IN IF rest.status # "ok" THEN rest ELSE ListOk(rest.st, <<v.p>> \o rest.ps)

\* the loop of CaseExpr::rewrite_agg_to_var
rewrite_agg_to_var_pairs(st, ps, tlist) ==
  IF ps = <<>> THEN ListOk(st, <<>>)
  ELSE LET w == rewrite_agg_to_var(st, Head(ps)[1], tlist)
       IN IF w.status # "ok" THEN ListFailed(w)
          ELSE LET t == rewrite_agg_to_var(w.st, Head(ps)[2], tlist)
               IN IF t.status # "ok" THEN ListFailed(t)
                  ELSE LET rest == rewrite_agg_to_var_pairs(t.st, Tail(ps), tlist)
                       IN IF rest.status # "ok" THEN rest
                          ELSE ListOk(rest.st, << <<w.p, t.p>> >> \o rest.ps)

\* InValues::rewrite_agg_to_var
InValues_rewrite_agg_to_var(st, p, tlist) ==
  LET n == st.h[p]
      vs == rewrite_agg_to_var_list(st, n.value_list, tlist)
  IN IF vs.status # "ok" THEN vs.r
     ELSE LET a == rewrite_agg_to_var(vs.st, n.arg, tlist)
          IN IF a.status # "ok" THEN a
             ELSE New(a.st, [InValues(a.st.h[a.p], vs.ps) EXCEPT !.arg = a.p])

\* CaseExpr::rewrite_agg_to_var
CaseExpr_rewrite_agg_to_var(st, p, tlist) ==
  LET n == st.h[p]
      ps == rewrite_agg_to_var_pairs(st, n.expr_pair_list, tlist)
  IN IF ps.status # "ok" THEN ps.r
     ELSE LET e == IF n.else_expr # nullptr
                   THEN rewrite_agg_to_var(ps.st, n.else_expr, tlist)
                   ELSE Returned(ps.st, nullptr)
          IN IF e.status # "ok" THEN e
             ELSE New(e.st, CaseExpr(n.ti, n.agg, ps.ps, e.p))

\* ExtractExpr::rewrite_agg_to_var, DatetruncExpr::rewrite_agg_to_var
ExtractExpr_rewrite_agg_to_var(st, p, tlist) ==
  LET n == st.h[p]
      c == rewrite_agg_to_var(st, n.from_expr, tlist)
  IN IF c.status # "ok" THEN c ELSE New(c.st, [n EXCEPT !.from_expr = c.p])

\* UOper, BinOper, CharLengthExpr, LikeExpr: the node is rebuilt with its
\* own attributes over its rewritten operands (a LIKE pattern and escape are
\* copied)
Rebuild_rewrite_agg_to_var(st, p, tlist) ==
  LET n == st.h[p]
  IN CASE n.k = "UOper" ->
            LET c == rewrite_agg_to_var(st, n.operand, tlist)
            IN IF c.status # "ok" THEN c ELSE New(c.st, UOper(n.ti, n.agg, n.optype, c.p))
       [] n.k = "BinOper" ->
            LET l == rewrite_agg_to_var(st, n.left_operand, tlist)
            IN IF l.status # "ok" THEN l
               ELSE LET r == rewrite_agg_to_var(l.st, n.right_operand, tlist)
                    IN IF r.status # "ok" THEN r
                       ELSE New(r.st, BinOper(n.ti, n.agg, n.optype, n.qualifier, l.p, r.p))
       [] n.k = "CharLengthExpr" ->
            LET c == rewrite_agg_to_var(st, n.arg, tlist)
            IN IF c.status # "ok" THEN c
               ELSE New(c.st, [CharLengthExpr(c.st.h[c.p], n.calc_encoded_length)
                                 EXCEPT !.arg = c.p])
       [] n.k = "LikeExpr" ->
            LET a == rewrite_agg_to_var(st, n.arg, tlist)
            IN IF a.status # "ok" THEN a
               ELSE LET l == deep_copy(a.st, n.like_expr)
                    IN IF l.status # "ok" THEN l
                       ELSE LET e == deep_copy(l.st, n.escape_expr)
                            IN IF e.status # "ok" THEN e
                               ELSE New(e.st,
                                        [LikeExpr(e.st.h[a.p], l.p, e.p, n.is_ilike, n.is_simple)
                                           EXCEPT !.arg = a.p])

\* p->rewrite_agg_to_var(tlist), dispatched on the dynamic type
rewrite_agg_to_var(st, p, tlist) ==
  IF p = nullptr THEN Aborted(st)
  ELSE LET k == st.h[p].k
       IN CASE k = "ColumnVar" -> ColumnVar_rewrite_agg_to_var(st, p, tlist)
            [] k = "Var" -> Var_rewrite_agg_to_var(st, p, tlist)
            [] k = "AggExpr" -> AggExpr_rewrite_agg_to_var(st, p, tlist)
            [] k = "InValues" -> InValues_rewrite_agg_to_var(st, p, tlist)
            [] k = "CaseExpr" -> CaseExpr_rewrite_agg_to_var(st, p, tlist)
            [] k \in {"ExtractExpr", "DatetruncExpr"} -> ExtractExpr_rewrite_agg_to_var(st, p, tlist)
            [] k \in {"UOper", "BinOper", "CharLengthExpr", "LikeExpr"} ->
                 Rebuild_rewrite_agg_to_var(st, p, tlist)
            [] OTHER -> deep_copy(st, p)

\* Expr::decompress
decompress(st, p) ==
  LET e == st.h[p]
  IN IF e.ti.compression = "kENCODING_NONE" THEN Returned(st, p)
     ELSE New(st, UOper([e.ti EXCEPT !.compression = "kENCODING_NONE", !.comp_param = 0],
                        e.agg, "kCAST", p))

(***************************************************************************)
(* Driver of the three rewrites: the planner holds an expression e and a   *)
(* target list and rewrites e over the list in one of the three ways.      *)
(***************************************************************************)
Col_t1_c2 == ColumnVar(T_INT, 1, 2, 0)

HavingSamples ==
  {Col_t1_c1, Col_t1_c2, Var(T_INT, 1, 1, 0, "kINPUT_OUTER", 1),
   Constant(T_VARCHAR, FALSE, <<"a", "b">>),
   MinOfCol, CountStar,
   AggExpr(T_INT, "kMAX", BinOper(T_INT, FALSE, "kPLUS", "kONE", Col_t1_c1,
                                  Constant(T_INT, FALSE, 5)), FALSE),
   UOper(T_INT, TRUE, "kUMINUS", MinOfCol),
   BinOper(T_BOOLEAN, FALSE, "kEQ", "kONE", Col_t1_c1, Constant(T_INT, FALSE, 5)),
   BinOper(T_BOOLEAN, TRUE, "kGT", "kONE", CountStar, Constant(T_INT, FALSE, 5)),
   BinOper(T_INT, TRUE, "kPLUS", "kONE", MinOfCol, Col_t1_c1),
   BinOper(T_BOOLEAN, FALSE, "kEQ", "kONE", Col_t1_c2, Col_t1_c1),
   InValues(Col_t1_c1, <<Constant(T_INT, FALSE, 5)>>),
   InValues(Col_t1_c1, <<Constant(T_INT, FALSE, 5), ColumnVar(T_TIMESTAMP, 2, 1, 1)>>),
   CharLengthExpr(Col_t1_c1, FALSE),
   LikeExpr(Col_t1_c1, Constant(T_VARCHAR, FALSE, <<"a", "b">>), Nil, FALSE, TRUE),
   CaseExpr(T_INT, TRUE, << <<BinOper(T_BOOLEAN, FALSE, "kEQ", "kONE", Col_t1_c1,
                                      Constant(T_INT, FALSE, 5)), MinOfCol>> >>,
            Constant(T_INT, TRUE, 0)),
   CaseExpr(T_INT, FALSE, << <<BinOper(T_BOOLEAN, FALSE, "kEQ", "kONE", Col_t1_c2,
                                       Constant(T_INT, FALSE, 5)), Col_t1_c1>> >>, Nil),
   ExtractExpr(T_BIGINT, FALSE, "kYEAR", ColumnVar(T_TIMESTAMP, 2, 1, 1)),
   DatetruncExpr(T_TIMESTAMP, FALSE, "dtDAY", ColumnVar(T_TIMESTAMP, 2, 1, 1)),
   ExtractExpr(T_BIGINT, TRUE, "kYEAR",
               AggExpr(T_TIMESTAMP, "kMAX", ColumnVar(T_TIMESTAMP, 2, 1, 1), FALSE)),
   ColumnVar(T_DICT, 1, 3, 0),
   AggExpr(T_DICT, "kMIN", ColumnVar(T_DICT, 1, 3, 0), FALSE)}

InitRewrites ==
  /\ phase = "built"
  /\ \E t \in HavingSamples, ts \in SeqsUpTo(TargetSamples, MaxTargets) :
       LET b == Build(EmptyStore, t)
           tl == BuildList(b.st, ts)
       IN /\ heap = tl.st.h /\ strs = tl.st.s
          /\ root = [e |-> b.p, tlist |-> tl.ps, heap |-> tl.st.h, strs |-> tl.st.s]
  /\ ret = NoCall
  /\ lhs_type = T_INT /\ rhs_type = T_INT /\ tres = NoCall

\* the state after the call r, made under the name call
Rewritten(call, r) ==
  /\ heap' = r.st.h
  /\ strs' = r.st.s
  /\ ret' = [call |-> call, status |-> r.status, p |-> r.p, error |-> ErrorOf(r)]
  /\ phase' = "called"
  /\ UNCHANGED <<root, lhs_type, rhs_type, tres>>

\* r = e->rewrite_with_targetlist(tlist)
CallRewriteWithTargetlist ==
  /\ phase = "built"
  /\ Rewritten("rewrite_with_targetlist",
               rewrite_with_targetlist(Store(heap, strs), root.e, root.tlist))

\* r = e->rewrite_with_child_targetlist(tlist)
CallRewriteWithChildTargetlist ==
  /\ phase = "built"
  /\ Rewritten("rewrite_with_child_targetlist",
               rewrite_with_child_targetlist(Store(heap, strs), root.e, root.tlist))

\* r = e->rewrite_agg_to_var(tlist)
CallRewriteAggToVar ==
  /\ phase = "built"
  /\ Rewritten("rewrite_agg_to_var",
               rewrite_agg_to_var(Store(heap, strs), root.e, root.tlist))

\* r = e->decompress()
CallDecompress ==
  /\ phase = "built"
  /\ Rewritten("decompress", decompress(Store(heap, strs), root.e))

NextRewrites ==
  \/ CallRewriteWithTargetlist
  \/ CallRewriteWithChildTargetlist
  \/ CallRewriteAggToVar
  \/ CallDecompress

SpecRewrites == InitRewrites /\ [][NextRewrites]_vars

(***************************************************************************)
(* C21: what rewrite_agg_to_var puts in the place of the leaves.           *)
(***************************************************************************)
First(S) == CHOOSE i \in S : \A j \in S : i <= j

\* the positions of the entries that the leaf q of the walk stands for: the
\* AggExpr entries equal to an AggExpr q, the non-aggregate column entries
\* with the table and column of a ColumnVar q
EntriesFor(q) ==
  {i \in DOMAIN root.tlist :
     IF heap[q].k = "AggExpr"
     THEN heap[root.tlist[i]].k = "AggExpr" /\ Eq(Store(heap, strs), q, root.tlist[i]) = "true"
     ELSE /\ heap[root.tlist[i]].k \in {"ColumnVar", "Var"}
          /\ heap[root.tlist[i]].table_id = heap[q].table_id
          /\ heap[root.tlist[i]].column_id = heap[q].column_id}

\* the positions of the entries that are neither columns nor aggregates
Strangers == {i \in DOMAIN root.tlist :
                heap[root.tlist[i]].k \notin {"ColumnVar", "Var", "AggExpr"}}

\* the children of a node, in the order of its fields
ChildSeq(n) ==
  CASE n.k = "UOper" -> <<n.operand>>
    [] n.k = "BinOper" -> <<n.left_operand, n.right_operand>>
    [] n.k = "CharLengthExpr" -> <<n.arg>>
    [] n.k = "LikeExpr" -> <<n.arg, n.like_expr, n.escape_expr>>
    [] n.k = "InValues" -> <<n.arg>> \o n.value_list
    [] n.k = "CaseExpr" -> Flat(n.expr_pair_list) \o <<n.else_expr>>
    [] n.k \in {"ExtractExpr", "DatetruncExpr"} -> <<n.from_expr>>
    [] OTHER -> <<>>

RECURSIVE WalkLeaves(_)
\* the AggExpr nodes and the ColumnVar and Var nodes outside them under p
WalkLeaves(p) ==
  IF p = nullptr THEN {}
  ELSE IF heap[p].k \in {"AggExpr", "ColumnVar", "Var"} THEN {p}
  ELSE UNION {WalkLeaves(ChildSeq(heap[p])[i]) : i \in DOMAIN ChildSeq(heap[p])}

RECURSIVE StandsFor(_, _)
\* the tree at out is the tree at in with every leaf of the walk replaced by
\* a Var of the outer input row numbered by the first entry the leaf stands for
StandsFor(in, out) ==
  IF in = nullptr THEN out = nullptr
  ELSE IF heap[in].k \in {"AggExpr", "ColumnVar"}
  THEN /\ heap[out].k = "Var"
       /\ heap[out].which_row = "kINPUT_OUTER"
       /\ EntriesFor(in) # {}
       /\ heap[out].varno = First(EntriesFor(in))
  ELSE IF heap[in].k = "Var" THEN heap[out].k = "Var"
  ELSE IF ChildSeq(heap[in]) = <<>>
  THEN Describe(Store(heap, strs), out) = Describe(Store(heap, strs), in)
  ELSE /\ heap[out].k = heap[in].k
       /\ Len(ChildSeq(heap[out])) = Len(ChildSeq(heap[in]))
       /\ \A i \in DOMAIN ChildSeq(heap[in]) :
            StandsFor(ChildSeq(heap[in])[i], ChildSeq(heap[out])[i])

\* C21 as stated: the tree returned by rewrite_agg_to_var(tlist) has, for
\* every AggExpr equal to an entry and every ColumnVar matching a
\* non-aggregate entry, a Var with which_row INPUT_OUTER and varno the 1-based
\* position in tlist, aggregate slots counted, of the first such entry, the
\* elements of an InValues value list included; a leaf with no such entry
\* makes the call fail with NotInTargetList.
C21_Original ==
  ret.call = "rewrite_agg_to_var" =>
    /\ ret.status = "ok" => StandsFor(root.e, ret.p)
    /\ (\E q \in WalkLeaves(root.e) : heap[q].k # "Var" /\ EntriesFor(q) = {}) =>
         ret.status = "throw" /\ ret.error = "NotInTargetList"

\* what the walk makes of the leaf q alone
LeafOutcome(q) ==
  IF heap[q].k = "AggExpr"
  THEN IF EntriesFor(q) # {} THEN "ok" ELSE "NotInTargetList"
  ELSE IF heap[q].k = "Var"
  THEN IF \E i \in DOMAIN root.tlist : Eq(Store(heap, strs), root.tlist[i], q) = "true"
       THEN "ok" ELSE "NotInTargetList"
  ELSE IF EntriesFor(q) # {} /\ \A s \in Strangers : s > First(EntriesFor(q)) THEN "ok"
  ELSE IF Strangers # {} THEN "TargetListNotAllColumnsOrAggs"
  ELSE "NotInTargetList"

\* C21: as above, but a ColumnVar leaf that meets an entry that is neither a
\* column nor an aggregate before its first match makes the call fail with
\* TargetListNotAllColumnsOrAggs; a Var leaf is looked up with the equality
\* of the entries; the call fails exactly when a leaf fails, with the error
\* of a failing leaf.
C21_AggToVar ==
  ret.call = "rewrite_agg_to_var" =>
    /\ ret.status = "ok" => StandsFor(root.e, ret.p)
    /\ ret.status = "ok" <=> \A q \in WalkLeaves(root.e) : LeafOutcome(q) = "ok"
    /\ ret.status # "ok" =>
         /\ ret.status = "throw"
         /\ \E q \in WalkLeaves(root.e) : LeafOutcome(q) = ret.error

\* MIN(t1.c1) + t1.c1 over [MIN(t1.c1), t1.c1] became Var 1 + Var 2
C21_Witness ==
  /\ ret.call = "rewrite_agg_to_var"
  /\ ret.status = "ok"
  /\ heap[root.e].k = "BinOper" /\ heap[root.e].optype = "kPLUS"
  /\ Len(root.tlist) = 2
  /\ heap[root.tlist[1]].k = "AggExpr"
  /\ heap[heap[ret.p].left_operand].k = "Var" /\ heap[heap[ret.p].left_operand].varno = 1
  /\ heap[heap[ret.p].right_operand].k = "Var" /\ heap[heap[ret.p].right_operand].varno = 2

(***************************************************************************)
(* C22: the rewrites leave their inputs alone.                             *)
(***************************************************************************)
RewriteCalls == {"rewrite_with_targetlist", "rewrite_with_child_targetlist", "rewrite_agg_to_var"}

\* every object and string of the receiver and of the target list is as it
\* was before the call
InputsUnchanged ==
  /\ \A q \in DOMAIN root.heap : heap[q] = root.heap[q]
  /\ \A a \in DOMAIN root.strs : strs[a] = root.strs[a]

\* C22: rewrite_with_targetlist, rewrite_with_child_targetlist and
\* rewrite_agg_to_var leave the receiver tree and the target list exactly as
\* they were, when they return a tree and when they fail part-way through
\* the walk, and the tree returned shares no node with the receiver.
C22_RewriteFrame ==
  ret.call \in RewriteCalls =>
    /\ InputsUnchanged
    /\ ret.status = "ok" =>
         /\ Reach(heap, ret.p) \cap Reach(heap, root.e) = {}
         /\ StringPayloads(heap, ret.p) \cap StringPayloads(heap, root.e) = {}

\* t1.c1 IN (5, t2.c1) was rewritten over a child target list holding t1.c1
C22_Witness ==
  /\ ret.call = "rewrite_with_child_targetlist"
  /\ ret.status = "ok"
  /\ heap[root.e].k = "InValues"
  /\ Len(heap[root.e].value_list) = 2
  /\ heap[ret.p].k = "InValues"
  /\ heap[heap[ret.p].arg].k = "Var"

(***************************************************************************)
(* C23: the contains_agg flags of the trees the operations return.         *)
(***************************************************************************)
\* contains_agg of every node under p: set on an AggExpr, and elsewhere the
\* disjunction of the flags of the children
AggInvariant(h, p) ==
  \A q \in Reach(h, p) :
    h[q].agg = IF h[q].k = "AggExpr" THEN TRUE ELSE \E c \in Children(h[q]) : h[c].agg

\* the classes whose rewrite_agg_to_var is defined in Analyzer.cpp
RebuiltHere == {"CaseExpr", "ExtractExpr", "DatetruncExpr", "InValues"}

\* C23: a tree returned by decompress, rewrite_with_targetlist,
\* rewrite_with_child_targetlist or rewrite_agg_to_var for a CASE, EXTRACT,
\* DATE_TRUNC or IN expression that satisfies the contains_agg invariant
\* satisfies it too; a node whose AggExpr children rewrite_agg_to_var
\* replaced by Vars has the flag cleared.
C23_ContainsAgg ==
  /\ ret.call \in RewriteCalls \cup {"decompress"}
  /\ ret.status = "ok"
  /\ heap[root.e].k \in RebuiltHere
  /\ AggInvariant(root.heap, root.e)
  => AggInvariant(heap, ret.p)

(***************************************************************************)
(* The range table of a Query: add_rte and get_rte_idx.                     *)
(***************************************************************************)
MaxRtes == 3
RangeVars == {"t1", "t2", "v"}

\* a RangeTblEntry allocated by the caller; obj tells the objects apart
RangeTblEntry(rangevar, obj) == [rangevar |-> rangevar, obj |-> obj]

\* a lookup that returns the position of the last entry of that name
get_rte_idx_last(rangetable, name) ==
  LET S == {i \in 1..Len(rangetable) : rangetable[i].rangevar = name}
  IN IF S = {} THEN -1 ELSE (CHOOSE i \in S : \A j \in S : j <= i) - 1

\* the loop of Query::get_rte_idx from the entry at position rte_idx on
RECURSIVE get_rte_idx_loop(_, _, _)
get_rte_idx_loop(rangetable, name, rte_idx) ==
  IF rte_idx >= Len(rangetable) THEN -1
  ELSE IF rangetable[rte_idx + 1].rangevar = name THEN rte_idx
  ELSE get_rte_idx_loop(rangetable, name, rte_idx + 1)

\* Query::get_rte_idx
get_rte_idx(rangetable, name) == get_rte_idx_loop(rangetable, name, 0)

\* Query::add_rte
add_rte(rangetable, rte) == Append(rangetable, rte)

\* a Query with an empty range table; held are the indices the caller keeps
InitRange ==
  /\ phase = "query"
  /\ root = [rangetable |-> <<>>, held |-> {}]
  /\ ret = [call |-> "none"]
  /\ heap = <<>>
  /\ strs = <<>>
  /\ lhs_type = T_INT /\ rhs_type = T_INT /\ tres = NoCall

\* query.add_rte(new RangeTblEntry(name, ...))
AddRte ==
  /\ Len(root.rangetable) < MaxRtes
  /\ \E name \in RangeVars :
       /\ root' = [root EXCEPT !.rangetable =
                     add_rte(@, RangeTblEntry(name, Len(root.rangetable) + 1))]
       /\ ret' = [call |-> "add_rte", name |-> name]
  /\ UNCHANGED <<phase, heap, strs, lhs_type, rhs_type, tres>>

\* idx = query.get_rte_idx(name); the caller keeps idx with the entry it found
GetRteIdx ==
  \E name \in RangeVars :
    LET idx == get_rte_idx(root.rangetable, name)
    IN /\ ret' = [call |-> "get_rte_idx", name |-> name, idx |-> idx]
       /\ root' = [root EXCEPT !.held =
                     IF idx = -1 THEN @
                     ELSE @ \cup {[idx |-> idx, rte |-> root.rangetable[idx + 1]]}]
       /\ UNCHANGED <<phase, heap, strs, lhs_type, rhs_type, tres>>

NextRange == AddRte \/ GetRteIdx

SpecRange == InitRange /\ [][NextRange]_vars

\* C24: the range table holds the entries in the order of the add_rte calls;
\* get_rte_idx(name) is the 0-based position of the first entry of that name
\* and -1 when there is none; an index returned earlier still denotes the
\* same entry after later add_rte calls.
C24_RangeTable ==
  LET rt == root.rangetable
  IN /\ \A i \in 1..Len(rt) : rt[i].obj = i
     /\ ret.call = "get_rte_idx" =>
          IF \E i \in 1..Len(rt) : rt[i].rangevar = ret.name
          THEN /\ ret.idx \in 0..(Len(rt) - 1)
               /\ rt[ret.idx + 1].rangevar = ret.name
               /\ \A i \in 1..ret.idx : rt[i].rangevar # ret.name
          ELSE ret.idx = -1
     /\ \A h \in root.held : h.idx < Len(rt) /\ rt[h.idx + 1] = h.rte

\* t2 was looked up, later entries were added, two of them named t1, and
\* the lookup of t1 returned the first of the two
C24_Witness ==
  /\ Len(root.rangetable) >= 3
  /\ root.rangetable[1].rangevar = "t2"
  /\ root.rangetable[2].rangevar = "t1"
  /\ root.rangetable[3].rangevar = "t1"
  /\ ret.call = "get_rte_idx" /\ ret.name = "t1" /\ ret.idx = 1
  /\ \E h \in root.held : h.idx = 0

(***************************************************************************)
(* CASE value-domain inference: Expr::add_unique and CaseExpr::get_domain. *)
(* A DomainSet is the list of the pointers it holds, in insertion order.   *)
(***************************************************************************)
DomainOk(set) == [set |-> set, status |-> "ok", returned |-> FALSE]

\* the loop of Expr::add_unique from the element at position i on
RECURSIVE add_unique_loop(_, _, _, _)
add_unique_loop(st, expr_list, p, i) ==
  IF i > Len(expr_list) THEN DomainOk(Append(expr_list, p))
  ELSE LET eq == Eq(st, expr_list[i], p)
       IN IF eq = "abort" THEN [DomainOk(expr_list) EXCEPT !.status = "abort"]
          ELSE IF eq = "true" THEN DomainOk(expr_list)
          ELSE add_unique_loop(st, expr_list, p, i + 1)

\* Expr::add_unique
add_unique(st, expr_list, p) == add_unique_loop(st, expr_list, p, 1)

RECURSIVE get_domain(_, _, _)
RECURSIVE CaseExpr_get_domain_pairs(_, _, _)

\* the loop of CaseExpr::get_domain over the (when, then) pairs that are
\* left; returned tells that the method returned from inside the loop
CaseExpr_get_domain_pairs(st, pairs, domain_set) ==
  IF pairs = <<>> THEN DomainOk(domain_set)
  ELSE LET second == Head(pairs)[2]
           n == st.h[second]
           d == IF n.k = "Constant" THEN add_unique(st, domain_set, second)
                ELSE IF n.k \in {"ColumnVar", "Var"} THEN add_unique(st, domain_set, second)
                ELSE IF /\ n.k = "UOper" /\ n.optype = "kCAST"
                        /\ st.h[n.operand].k = "Constant"
                THEN add_unique(st, domain_set, second)
                ELSE \* p.second is no ColumnVar here, so the inner cast of
                     \* p.second to ColumnVar yields nullptr
                     LET g == get_domain(st, second, domain_set)
                     IN [g EXCEPT !.returned = (g.set = <<>>)]
       IN IF d.status # "ok" \/ d.returned THEN d
          ELSE CaseExpr_get_domain_pairs(st, Tail(pairs), d.set)

\* CaseExpr::get_domain
CaseExpr_get_domain(st, p, domain_set) ==
  LET e == st.h[p]
      d == CaseExpr_get_domain_pairs(st, e.expr_pair_list, domain_set)
  IN IF d.status # "ok" \/ d.returned THEN [d EXCEPT !.returned = FALSE]
     ELSE IF e.else_expr = nullptr THEN d
     ELSE LET n == st.h[e.else_expr]
          IN IF n.k = "Constant" THEN add_unique(st, d.set, e.else_expr)
             ELSE IF n.k \in {"ColumnVar", "Var"} THEN add_unique(st, d.set, e.else_expr)
             ELSE IF n.k = "UOper" /\ n.optype = "kCAST"
             THEN IF st.h[n.operand].k = "Constant"
                  THEN add_unique(st, d.set, n.operand)
                  ELSE \* else_expr is no ColumnVar here
                       d
             ELSE get_domain(st, e.else_expr, d.set)

\* p->get_domain(domain_set); the classes that do not override it clear the
\* set
get_domain(st, p, domain_set) ==
  IF st.h[p].k = "CaseExpr" THEN CaseExpr_get_domain(st, p, domain_set)
  ELSE DomainOk(<<>>)

MaxBranches == 2

Plus5 == BinOper(T_INT, FALSE, "kPLUS", "kONE", Col_t1_c1, Constant(T_INT, FALSE, 5))

\* what a branch of the CASE may be
BranchSamples ==
  {Constant(T_INT, FALSE, 5),
   Constant(T_INT, FALSE, 7),
   Col_t1_c1,
   UOper(T_BIGINT, FALSE, "kCAST", Constant(T_INT, FALSE, 5)),
   UOper(T_BIGINT, FALSE, "kCAST", Col_t1_c1),
   Plus5,
   UOper(T_BIGINT, FALSE, "kCAST", Plus5)}

WhenSample == BinOper(T_BOOLEAN, FALSE, "kEQ", "kONE", Col_t1_c2, Constant(T_INT, FALSE, 5))

InitDomain ==
  /\ phase = "built"
  /\ \E thens \in SeqsUpTo(BranchSamples, MaxBranches), else_expr \in {Nil} \cup BranchSamples :
       /\ thens # <<>>
       /\ LET b == Build(EmptyStore,
                         CaseExpr(T_BIGINT, FALSE,
                                  [i \in 1..Len(thens) |-> <<WhenSample, thens[i]>>],
                                  else_expr))
          IN /\ heap = b.st.h /\ strs = b.st.s
             /\ root = [e |-> b.p, heap |-> b.st.h, strs |-> b.st.s]
  /\ ret = NoCall
  /\ lhs_type = T_INT /\ rhs_type = T_INT /\ tres = NoCall

\* DomainSet domain_set; e->get_domain(domain_set)
GetDomain ==
  /\ phase = "built"
  /\ LET d == get_domain(Store(heap, strs), root.e, <<>>)
     IN ret' = [call |-> "get_domain", status |-> d.status, domain_set |-> d.set]
  /\ phase' = "called"
  /\ UNCHANGED <<heap, strs, root, lhs_type, rhs_type, tres>>

NextDomain == GetDomain

SpecDomain == InitDomain /\ [][NextDomain]_vars

\* the then-expressions and the else-expression of the CASE
BranchesOf(e) ==
  {e.expr_pair_list[i][2] : i \in 1..Len(e.expr_pair_list)}
    \cup (IF e.else_expr = nullptr THEN {} ELSE {e.else_expr})

\* a literal or a direct column reference
PlainValue(p) == heap[p].k \in {"Constant", "ColumnVar", "Var"}

\* a literal, a direct column reference or a CAST wrapping one of these
DomainValue(p) ==
  \/ PlainValue(p)
  \/ heap[p].k = "UOper" /\ heap[p].optype = "kCAST" /\ PlainValue(heap[p].operand)

\* the then-expressions that CaseExpr::get_domain adds itself: literals,
\* column references and CASTs of a literal
AddedInLoop(e) ==
  \A i \in 1..Len(e.expr_pair_list) :
    LET second == e.expr_pair_list[i][2]
    IN \/ PlainValue(second)
       \/ /\ heap[second].k = "UOper" /\ heap[second].optype = "kCAST"
          /\ heap[heap[second].operand].k = "Constant"

\* C25: get_domain called with an empty set on a CASE whose then-expressions
\* are literals, column references or CASTs of a literal. When every branch
\* (the else-expression included) is a literal, a column reference or a
\* CAST of one, the set holds exactly those branch expressions (the cast
\* wrapper for a CAST), none twice; when some branch is none of these and
\* yields no values itself, the set is empty.
C25_CaseDomain ==
  ret.call = "get_domain" /\ ret.status = "ok" /\ AddedInLoop(heap[root.e]) =>
    LET set == ret.domain_set
        B == BranchesOf(heap[root.e])
        st == Store(heap, strs)
    IN IF \A b \in B : DomainValue(b)
       THEN /\ \A i \in 1..Len(set) : set[i] \in B
            /\ \A b \in B : \E i \in 1..Len(set) : set[i] = b \/ Eq(st, set[i], b) = "true"
            /\ \A i, j \in 1..Len(set) : i # j => Eq(st, set[i], set[j]) # "true"
       ELSE set = <<>>

(***************************************************************************)
(* Equality of column references: two ColumnVar or Var nodes are compared  *)
(* in both directions and the first one with itself.                       *)
(***************************************************************************)
MaxVarno == 2

\* the column references the file builds: ColumnVars of a range table entry,
\* the Vars rewrite_with_child_targetlist makes of them (they keep the
\* rte_idx of the column) and the free Vars of rewrite_agg_to_var
ColumnRefSamples ==
  {ColumnVar(T_INT, 1, c, r) : c \in 1..2, r \in 0..1}
    \cup {Var(T_INT, 1, c, r, w, v) :
            c \in 1..2, r \in 0..1, w \in {"kINPUT_OUTER", "kINPUT_INNER"}, v \in 1..MaxVarno}
    \cup {Var3(T_INT, w, v) : w \in {"kINPUT_OUTER", "kINPUT_INNER"}, v \in 1..MaxVarno}

InitColumns ==
  /\ phase = "built"
  /\ \E a \in ColumnRefSamples, b \in ColumnRefSamples : root = [a |-> a, b |-> b]
  /\ ret = NoCall
  /\ heap = <<>> /\ strs = <<>>
  /\ lhs_type = T_INT /\ rhs_type = T_INT /\ tres = NoCall

\* *a == *b, *b == *a and *a == *a
CompareColumns ==
  /\ phase = "built"
  /\ ret' = [call |-> "operator==",
             ab |-> ColumnVar_eq(root.a, root.b),
             ba |-> ColumnVar_eq(root.b, root.a),
             aa |-> ColumnVar_eq(root.a, root.a)]
  /\ phase' = "called"
  /\ UNCHANGED <<heap, strs, root, lhs_type, rhs_type, tres>>

NextColumns == CompareColumns

SpecColumns == InitColumns /\ [][NextColumns]_vars

\* C26: for two nodes a and b that are ColumnVar or Var, with any rte_idx
\* (-1 on one side only included), a == b holds exactly when b == a holds,
\* and a == a holds.
C26_ColumnEquality ==
  ret.call = "operator==" => ret.ab = ret.ba /\ ret.aa = "true"

(***************************************************************************)
(* C27: nullability of the operand types of a comparison.                  *)
(***************************************************************************)
\* analyze_type_info returned for a comparison operator
Compared ==
  /\ tres.call = "analyze_type_info"
  /\ IS_COMPARISON(tres.op)
  /\ tres.out.status = "ok"

\* C27: when analyze_type_info succeeds on a comparison, the new type of
\* each operand carries that operand's own notnull flag, in every branch,
\* and the BOOLEAN result has notnull = left.notnull AND right.notnull.
C27_OperandNotnull ==
  Compared =>
    /\ tres.out.new_left_type.notnull = lhs_type.notnull
    /\ tres.out.new_right_type.notnull = rhs_type.notnull
    /\ tres.out.result_type.type = "kBOOLEAN"
    /\ tres.out.result_type.notnull = (lhs_type.notnull /\ rhs_type.notnull)

(***************************************************************************)
(* C28: the receiver of UOper::add_cast after the call.                    *)
(***************************************************************************)
\* C28: after add_cast on a UOper, whether it returned a new cast wrapper,
\* the node itself or its inner operand, the receiving UOper has the same
\* operand and the same type as before the call.
C28_UOperReceiver ==
  ret.call = "add_cast" /\ root.desc.k = "UOper" =>
    /\ heap[root.e].k = "UOper"
    /\ heap[root.e].ti = root.desc.ti
    /\ heap[root.e].operand # nullptr
    /\ Describe(Store(heap, strs), heap[root.e].operand) = root.desc.operand

(***************************************************************************)
(* C29: the receiver of a CaseExpr::add_cast that failed.                  *)
(***************************************************************************)
\* C29: if CaseExpr.add_cast fails because a then-expression or the
\* else-expression cannot be cast to the target, the CaseExpr's type, its
\* (when, then) pairs, its else-expression and the types and values of the
\* literals in its branches are as they were before the call.
C29_CaseCastAtomic ==
  /\ ret.call = "add_cast"
  /\ root.desc.k = "CaseExpr"
  /\ ret.status = "throw"
  => Describe(Store(heap, strs), root.e) = root.desc

(***************************************************************************)
(* C30: casting the value of a literal against cast legality.              *)
(***************************************************************************)
\* add_cast was called on a non-null literal with a target of its own
\* compression
LiteralCast ==
  /\ ret.call = "add_cast"
  /\ root.desc.k = "Constant"
  /\ ~root.desc.is_null
  /\ ret.target.compression = root.desc.ti.compression

\* C30: for a non-null Constant of type S and a target T of the same
\* compression with S to T a legal cast, add_cast(T) succeeds and leaves the
\* Constant with type T; the call fails with InvalidCast only for pairs that
\* are not legal, and then the Constant's type and value are unchanged.
C30_LiteralCastLegality ==
  LiteralCast =>
    /\ is_castable(root.desc.ti, ret.target) =>
         /\ ret.status = "ok"
         /\ heap[root.e].ti = ret.target
    /\ ret.status = "throw" /\ ret.error = "InvalidCast" =>
         /\ ~is_castable(root.desc.ti, ret.target)
         /\ Describe(Store(heap, strs), root.e) = root.desc

=============================================================================
